---- MODULE Spec2Model ----
(***************************************************************************)
(* Model of the fault-report analyzers of the repository: the rule-based   *)
(* entity resolution engine of src/istok_nlp.py (IIoTAnalyzer), the        *)
(* urgency classifiers of src/istok_nlp_learn.py and src/NLP_with_spaCy.py,*)
(* the host process: main() and train_ner_model of src/istok_nlp.py and    *)
(* src/istok_nlp_learn.py, and the voice assistant of src/llama3.py and    *)
(* src/whisper+llama3.py: SpeechRecognizer.run, extract_entities and       *)
(* build_winnum_url.                                                       *)
(*                                                                         *)
(* A Python str is a sequence of characters.  A character is a one-element *)
(* string naming one letter: Cyrillic letters are written in Latin         *)
(* transliteration ("sh" is the single letter SHA, "sf" the soft sign,     *)
(* "Sh" the capital SHA), a Latin letter carries a star ("E*"), digits,    *)
(* the space and the full stop stand for themselves.                       *)
(***************************************************************************)
EXTENDS Integers, Sequences, FiniteSets, TLC

VARIABLES morph, pipe_pos, query, lookup, ents, pc, ret,
          program, host, mpc, served, loads, analyzer, disk,
          tpc, train_data, n_iter, itn, batch, entered, calls,
          texts, reply, entities, audio, heard, yielded

\* the host process: which module runs and how it is entered, the position of main,
\* the analyzer object, the persisted model, the call of train_ner_model in
\* progress and the calls of analyze_text in progress
host_vars == <<program, host, mpc, served, loads, analyzer, disk,
               tpc, train_data, n_iter, itn, batch, entered, calls>>

\* the batch of texts a loop works through, and the voice assistant of
\* src/llama3.py and src/whisper+llama3.py: the answer of the remote annotator,
\* what extract_entities returned, the capture and the text of
\* SpeechRecognizer.run and the texts it has yielded
assistant_vars == <<texts, reply, entities, audio, heard, yielded>>

vars == <<morph, pipe_pos, query, lookup, ents, pc, ret, host_vars, assistant_vars>>

\* the weights of the tagger, in memory or persisted: none, those of spacy.blank,
\* those persisted before this process started, or those begin_training
\* initialized in this process and nlp.update moved k times
Absent == [kind |-> "absent", updates |-> 0]
Blank == [kind |-> "blank", updates |-> 0]
Old == [kind |-> "old", updates |-> 0]
Run(k) == [kind |-> "run", updates |-> k]

\* before IIoTAnalyzer(...) and before train_ner_model(...)
NoAnalyzer == [weights |-> Absent]
NotEntered == [weights |-> Absent, disk |-> Absent]

\* no request was sent to the remote annotator
NoReply == [status |-> 0, body |-> "none", response |-> <<>>]

\* no batch and no assistant: the analyzer is used on its own
AssistantIdle ==
    /\ texts = <<>>
    /\ reply = NoReply
    /\ entities = <<>>
    /\ audio = "none"
    /\ heard = <<>>
    /\ yielded = <<>>

\* no host process: a function is called on its own
HostIdle ==
    /\ program = "istok_nlp"
    /\ host = "function"
    /\ mpc = "idle"
    /\ served = 0
    /\ loads = 0
    /\ analyzer = NoAnalyzer
    /\ disk = Absent
    /\ tpc = "idle"
    /\ train_data = <<>>
    /\ n_iter = 0
    /\ itn = 0
    /\ batch = 0
    /\ entered = NotEntered
    /\ calls = <<>>
    /\ AssistantIdle

(***************************************************************************)
(* str methods                                                             *)
(***************************************************************************)
LowerLetters == <<"a", "b", "v", "g", "d", "e", "yo", "zh", "z", "i", "j", "k", "l", "m", "n", "o", "p", "r", "s", "t", "u", "f", "h", "c", "ch", "sh", "sch", "hd", "y", "sf", "eh", "yu", "ya", "e*">>
UpperLetters == <<"A", "B", "V", "G", "D", "E", "Yo", "Zh", "Z", "I", "J", "K", "L", "M", "N", "O", "P", "R", "S", "T", "U", "F", "H", "C", "Ch", "Sh", "Sch", "Hd", "Y", "Sf", "Eh", "Yu", "Ya", "E*">>
Digits == {"0", "1", "2", "3", "4", "5", "6", "7", "8", "9"}

Range(s) == {s[i] : i \in DOMAIN s}

\* the index of character c in alphabet a, 0 when absent
IndexIn(c, a) == IF \E i \in DOMAIN a : a[i] = c THEN CHOOSE i \in DOMAIN a : a[i] = c ELSE 0

\* the lower case of every upper-case letter, and the reverse
LowerMap == [c \in Range(UpperLetters) |-> LowerLetters[IndexIn(c, UpperLetters)]]
UpperMap == [c \in Range(LowerLetters) |-> UpperLetters[IndexIn(c, LowerLetters)]]

LowerChar(c) == IF c \in DOMAIN LowerMap THEN LowerMap[c] ELSE c
UpperChar(c) == IF c \in DOMAIN UpperMap THEN UpperMap[c] ELSE c

\* str.lower()
Lower(s) == [i \in DOMAIN s |-> LowerChar(s[i])]

\* str.capitalize(): first character upper-cased, the rest lower-cased
Capitalize(s) == [i \in DOMAIN s |-> IF i = 1 THEN UpperChar(s[i]) ELSE LowerChar(s[i])]

\* needle in hay
Contains(hay, needle) ==
    \E i \in 1..(Len(hay) - Len(needle) + 1) : SubSeq(hay, i, i + Len(needle) - 1) = needle

\* ''.join(filter(str.isdigit, s))
DigitsOf(s) == SelectSeq(s, LAMBDA c : c \in Digits)

\* any(c.isdigit() for c in s)
HasDigit(s) == \E i \in DOMAIN s : s[i] \in Digits

\* f"{a} {b}"
Phrase(a, b) == a \o <<" ">> \o b

(***************************************************************************)
(* The words of the dictionaries, rules and sample reports                 *)
(***************************************************************************)
w_stanok == <<"s", "t", "a", "n", "o", "k">>
w_stanka == <<"s", "t", "a", "n", "k", "a">>
w_frezer == <<"f", "r", "e", "z", "e", "r">>
w_frezernyj == <<"f", "r", "e", "z", "e", "r", "n", "y", "j">>
w_press == <<"p", "r", "e", "s", "s">>
w_konvejer == <<"k", "o", "n", "v", "e", "j", "e", "r">>
w_lenta == <<"l", "e", "n", "t", "a">>
w_frezernyj_stanok == <<"f", "r", "e", "z", "e", "r", "n", "y", "j", " ", "s", "t", "a", "n", "o", "k">>

w_shpindelsf == <<"sh", "p", "i", "n", "d", "e", "l", "sf">>
w_shpindelya == <<"sh", "p", "i", "n", "d", "e", "l", "ya">>
w_val == <<"v", "a", "l">>
w_podshipnik == <<"p", "o", "d", "sh", "i", "p", "n", "i", "k">>
w_remensf == <<"r", "e", "m", "e", "n", "sf">>

w_shum == <<"sh", "u", "m">>
w_shuma == <<"sh", "u", "m", "a">>
w_skrip == <<"s", "k", "r", "i", "p">>
w_vibraciya == <<"v", "i", "b", "r", "a", "c", "i", "ya">>
w_vibracii == <<"v", "i", "b", "r", "a", "c", "i", "i">>
w_tryaska == <<"t", "r", "ya", "s", "k", "a">>
w_peregrev == <<"p", "e", "r", "e", "g", "r", "e", "v">>
w_teplovoj_rezhim == <<"t", "e", "p", "l", "o", "v", "o", "j", " ", "r", "e", "zh", "i", "m">>
w_utechka == <<"u", "t", "e", "ch", "k", "a">>
w_techsf == <<"t", "e", "ch", "sf">>
w_kapaet == <<"k", "a", "p", "a", "e", "t">>

w_zamena == <<"z", "a", "m", "e", "n", "a">>
w_remont == <<"r", "e", "m", "o", "n", "t">>
w_pochinka == <<"p", "o", "ch", "i", "n", "k", "a">>

w_srochno == <<"s", "r", "o", "ch", "n", "o">>
w_avariya == <<"a", "v", "a", "r", "i", "ya">>
w_ostanovka == <<"o", "s", "t", "a", "n", "o", "v", "k", "a">>
w_kritichn == <<"k", "r", "i", "t", "i", "ch", "n">>
w_planovyj == <<"p", "l", "a", "n", "o", "v", "y", "j">>
w_ne_srochno == <<"n", "e", " ", "s", "r", "o", "ch", "n", "o">>
w_profilaktika == <<"p", "r", "o", "f", "i", "l", "a", "k", "t", "i", "k", "a">>
w_ostanovilsya == <<"o", "s", "t", "a", "n", "o", "v", "i", "l", "s", "ya">>
w_srochnyj == <<"s", "r", "o", "ch", "n", "y", "j">>
w_neznachitelsfn == <<"n", "e", "z", "n", "a", "ch", "i", "t", "e", "l", "sf", "n">>
w_neznachitelsfnyj == <<"n", "e", "z", "n", "a", "ch", "i", "t", "e", "l", "sf", "n", "y", "j">>

w_vibriruet == <<"v", "i", "b", "r", "i", "r", "u", "e", "t">>
w_drozhit == <<"d", "r", "o", "zh", "i", "t">>
w_tryasetsya == <<"t", "r", "ya", "s", "e", "t", "s", "ya">>
w_shumit == <<"sh", "u", "m", "i", "t">>
w_gudit == <<"g", "u", "d", "i", "t">>
w_skripit == <<"s", "k", "r", "i", "p", "i", "t">>
w_peregrevaetsya == <<"p", "e", "r", "e", "g", "r", "e", "v", "a", "e", "t", "s", "ya">>
w_nagrevaetsya == <<"n", "a", "g", "r", "e", "v", "a", "e", "t", "s", "ya">>

w_vibrirovatsf == <<"v", "i", "b", "r", "i", "r", "o", "v", "a", "t", "sf">>
w_shumetsf == <<"sh", "u", "m", "e", "t", "sf">>
w_peregrevatsfsya == <<"p", "e", "r", "e", "g", "r", "e", "v", "a", "t", "sf", "s", "ya">>
w_zavisatsf == <<"z", "a", "v", "i", "s", "a", "t", "sf">>
w_zavisanie == <<"z", "a", "v", "i", "s", "a", "n", "i", "e">>
w_ostanavlivatsfsya == <<"o", "s", "t", "a", "n", "a", "v", "l", "i", "v", "a", "t", "sf", "s", "ya">>

w_slomatsfsya == <<"s", "l", "o", "m", "a", "t", "sf", "s", "ya">>
w_ostanovitsfsya == <<"o", "s", "t", "a", "n", "o", "v", "i", "t", "sf", "s", "ya">>
w_peregretsfsya == <<"p", "e", "r", "e", "g", "r", "e", "t", "sf", "s", "ya">>

w_SHpindelsf == <<"Sh", "p", "i", "n", "d", "e", "l", "sf">>
w_Srochno == <<"S", "r", "o", "ch", "n", "o">>
w_ne == <<"n", "e">>
w_teplovoj == <<"t", "e", "p", "l", "o", "v", "o", "j">>
w_rezhim == <<"r", "e", "zh", "i", "m">>
w_slomalsya == <<"s", "l", "o", "m", "a", "l", "s", "ya">>
w_2 == <<"2">>
w_5 == <<"5">>
w_E15 == <<"E*", "1", "5">>
w_dot == <<".">>

w_vysokaya == <<"v", "y", "s", "o", "k", "a", "ya">>
w_nizkaya == <<"n", "i", "z", "k", "a", "ya">>
w_Srednyaya == <<"S", "r", "e", "d", "n", "ya", "ya">>
w_Neizvestnoe_oborudovanie == <<"N", "e", "i", "z", "v", "e", "s", "t", "n", "o", "e", " ", "o", "b", "o", "r", "u", "d", "o", "v", "a", "n", "i", "e">>
w_Ne_ukazany == <<"N", "e", " ", "u", "k", "a", "z", "a", "n", "y">>
w_Simptomy_ne_opisany == <<"S", "i", "m", "p", "t", "o", "m", "y", " ", "n", "e", " ", "o", "p", "i", "s", "a", "n", "y">>

w_stankom == <<"s", "t", "a", "n", "k", "o", "m">>
w_stanki == <<"s", "t", "a", "n", "k", "i">>
w_frezernaya == <<"f", "r", "e", "z", "e", "r", "n", "a", "ya">>
w_ustanovka == <<"u", "s", "t", "a", "n", "o", "v", "k", "a">>
w_frezernaya_ustanovka == <<"f", "r", "e", "z", "e", "r", "n", "a", "ya", " ", "u", "s", "t", "a", "n", "o", "v", "k", "a">>
w_pressom == <<"p", "r", "e", "s", "s", "o", "m">>
w_kapatsf == <<"k", "a", "p", "a", "t", "sf">>
w_SHum == <<"Sh", "u", "m">>
w_remonta == <<"r", "e", "m", "o", "n", "t", "a">>
w_kritichnaya == <<"k", "r", "i", "t", "i", "ch", "n", "a", "ya">>
w_Vysokaya == <<"V", "y", "s", "o", "k", "a", "ya">>
w_Nizkaya == <<"N", "i", "z", "k", "a", "ya">>

\* None, told apart from every str (no str holds this character)
None == <<"<None>">>

(***************************************************************************)
(* The morphological analyzer self.morph (pymorphy3.MorphAnalyzer), a      *)
(* library outside the repository: parse(word)[0] for the words above.     *)
(* The analyzer lower-cases its input; a word it does not know is its own  *)
(* normal form.                                                            *)
(***************************************************************************)
\* an analyzer whose normal form of a normal form is another form again
NormalForm_inflecting(word) ==
    LET w == Lower(word) IN
    CASE w = w_stanok -> w_stanka
      [] w = w_stanka -> w_stanok
      [] OTHER -> w

NormalForm(word) ==
    LET w == Lower(word) IN
    CASE w = w_stanka -> w_stanok
      [] w = w_stankom -> w_stanok
      [] w = w_stanki -> w_stanok
      [] w = w_frezernaya -> w_frezernyj
      [] w = w_pressom -> w_press
      [] w = w_shpindelya -> w_shpindelsf
      [] w = w_shuma -> w_shum
      [] w = w_vibracii -> w_vibraciya
      [] w = w_remonta -> w_remont
      [] w = w_kapaet -> w_kapatsf
      [] w = w_vibriruet -> w_vibrirovatsf
      [] w = w_shumit -> w_shumetsf
      [] w = w_peregrevaetsya -> w_peregrevatsfsya
      [] w = w_slomalsya -> w_slomatsfsya
      [] w = w_ostanovilsya -> w_ostanovitsfsya
      [] OTHER -> w

\* the grammemes of parse(word)[0].tag that the code asks for
MorphTag(word) ==
    LET w == Lower(word) IN
    IF w \in {w_kapaet, w_vibriruet, w_shumit, w_peregrevaetsya, w_slomalsya, w_ostanovilsya}
    THEN "VERB"
    ELSE IF w \in {w_frezernyj, w_frezernaya, w_planovyj, w_teplovoj, w_srochnyj} THEN "ADJF"
    ELSE "NOUN"

\* the word forms of parse(word)[0].lexeme tagged NOUN, in lexeme order: the
\* lexeme of a verb or of an adjective holds verb or adjective forms only
LexemeNouns(word) == IF MorphTag(word) = "NOUN" THEN <<NormalForm(word)>> ELSE <<>>

(***************************************************************************)
(* The term dictionaries of IIoTAnalyzer.__init__: entries in definition   *)
(* order (a dict iterates in insertion order), each a canonical term with  *)
(* its list of variants.  The model keeps the entries and variants the     *)
(* sample reports exercise, in the order of the source.                    *)
(***************************************************************************)
equipment_types == <<
    [term |-> w_stanok, variants |-> <<w_stanok, w_stanka, w_stankom, w_frezer, w_frezernyj>>],
    [term |-> w_press, variants |-> <<w_press, w_pressom>>],
    [term |-> w_konvejer, variants |-> <<w_konvejer, w_lenta>>],
    [term |-> w_frezernyj_stanok,
     variants |-> <<w_frezer, w_frezernyj_stanok, w_frezernaya_ustanovka>>] >>

components == <<
    [term |-> w_shpindelsf, variants |-> <<w_shpindelsf, w_shpindelya, w_val>>],
    [term |-> w_podshipnik, variants |-> <<w_podshipnik>>],
    [term |-> w_remensf, variants |-> <<w_remensf, w_lenta>>] >>

symptoms == <<
    [term |-> w_shum, variants |-> <<w_shum, w_shuma, w_skrip>>],
    [term |-> w_vibraciya, variants |-> <<w_vibraciya, w_vibracii, w_tryaska>>],
    [term |-> w_peregrev, variants |-> <<w_peregrev, w_teplovoj_rezhim>>],
    [term |-> w_utechka, variants |-> <<w_utechka, w_techsf, w_kapaet>>] >>

actions == <<
    [term |-> w_zamena, variants |-> <<w_zamena, w_remont>>],
    [term |-> w_remont, variants |-> <<w_remont, w_pochinka, w_zamena>>] >>

Terms(term_dict) == {term_dict[i].term : i \in DOMAIN term_dict}

(***************************************************************************)
(* IIoTAnalyzer: normalisation and matching                                *)
(***************************************************************************)
\* an exception that leaves the call
Raises == <<"<raise>">>

\* _normalize without its guard and its try block
NormalizeWith_unguarded(m, word) ==
    IF word = <<>> \/ word = None THEN <<>>
    ELSE IF m = "ok" THEN NormalForm(word)
    ELSE Raises

\* _normalize(word) with self.morph = m: "ok" a working analyzer, "none" the None
\* __init__ leaves when the analyzer failed to load, "throws" an analyzer whose
\* parse raises (the except branch returns word.lower())
NormalizeWith(m, word) ==
    IF word = <<>> \/ word = None \/ m = "none"
    THEN (IF word # <<>> /\ word # None THEN Lower(word) ELSE <<>>)
    ELSE IF m = "throws" THEN Lower(word)
    ELSE NormalForm(word)

\* _normalize without the morphological analyzer: the lower case only
_normalize_lower_only(word) == NormalizeWith("none", word)

_normalize(word) == NormalizeWith(morph, word)

\* one entry of the loop of _match_term
EntryMatches(normalized, entry) ==
    \/ normalized = entry.term
    \/ \E j \in DOMAIN entry.variants : normalized = _normalize(Lower(entry.variants[j]))

RECURSIVE MatchFrom(_, _, _)
MatchFrom(normalized, term_dict, i) ==
    IF i > Len(term_dict) THEN None
    ELSE IF EntryMatches(normalized, term_dict[i]) THEN term_dict[i].term
    ELSE MatchFrom(normalized, term_dict, i + 1)

\* _match_term with the loop keeping the last entry that qualifies, not the first
RECURSIVE MatchLastFrom(_, _, _)
MatchLastFrom(normalized, term_dict, i) ==
    IF i < 1 THEN None
    ELSE IF EntryMatches(normalized, term_dict[i]) THEN term_dict[i].term
    ELSE MatchLastFrom(normalized, term_dict, i - 1)

_match_term_last_wins(text, term_dict) ==
    IF text = None THEN None
    ELSE MatchLastFrom(_normalize(Lower(text)), term_dict, Len(term_dict))

_match_term(text, term_dict) ==
    IF text = None THEN None
    ELSE MatchFrom(_normalize(Lower(text)), term_dict, 1)

\* Python truth of an Optional[str]
Truthy(s) == s # None /\ s # <<>>

\* _convert_verb_to_noun(word)
_convert_verb_to_noun(word) ==
    IF word = <<>> THEN None
    ELSE IF morph # "ok" THEN word
    ELSE IF MorphTag(word) \in {"VERB", "PRTS", "ADJF", "ADJS"} /\ LexemeNouns(word) # <<>>
         THEN LexemeNouns(word)[1]
    ELSE word

(***************************************************************************)
(* The annotated document doc = self.nlp(text).  A report is its sequence  *)
(* of token texts; a token is followed by one space unless it is the last  *)
(* one or a full stop follows it.  pipe_pos tells whether the loaded       *)
(* pipeline sets token.pos_ and token.lemma_ (the blank pipeline of        *)
(* __init__ holds only the sentencizer and the tagger of entities, and     *)
(* leaves both empty).                                                     *)
(***************************************************************************)
PosTag(word) ==
    LET w == Lower(word) IN
    IF w = w_dot THEN "PUNCT"
    ELSE IF w \in {w_2, w_5} THEN "NUM"
    ELSE IF w = Lower(w_E15) THEN "PROPN"
    ELSE IF w = w_ne THEN "PART"
    ELSE IF w = w_srochno THEN "ADV"
    ELSE IF MorphTag(w) = "VERB" THEN "VERB"
    ELSE IF MorphTag(w) = "ADJF" THEN "ADJ"
    ELSE "NOUN"

pos_(doc, i) == IF pipe_pos THEN PosTag(doc[i]) ELSE ""
lemma_(doc, i) == IF pipe_pos THEN NormalForm(doc[i]) ELSE <<>>

TrailingSpace(doc, i) == i < Len(doc) /\ doc[i + 1] # w_dot

\* the text of tokens i..j as it stands in the report
RECURSIVE SpanText(_, _, _)
SpanText(doc, i, j) ==
    IF i > j THEN <<>>
    ELSE doc[i] \o (IF i < j /\ TrailingSpace(doc, i) THEN <<" ">> ELSE <<>>)
                \o SpanText(doc, i + 1, j)

DocText(doc) == SpanText(doc, 1, Len(doc))

\* ent.text of a span of doc.ents
EntText(doc, ent) == SpanText(doc, ent.start, ent.end)

\* the labels of the tagger (self.ner.add_label)
Labels == {"EQUIPMENT", "EQUIPMENT_ID", "DATE", "ERROR_CODE", "TIME",
           "COMPONENT", "SYMPTOM", "ACTION", "URGENCY"}

\* [ent.text for ent in doc.ents if ent.label_ == label], in document order
RECURSIVE EntTexts(_, _, _)
EntTexts(doc, es, label) ==
    IF es = <<>> THEN <<>>
    ELSE (IF Head(es).label = label THEN <<EntText(doc, Head(es))>> ELSE <<>>)
         \o EntTexts(doc, Tail(es), label)

\* the id_part of every mention that holds a digit
RECURSIVE IdParts(_)
IdParts(mentions) ==
    IF mentions = <<>> THEN <<>>
    ELSE (IF DigitsOf(Head(mentions)) # <<>> THEN <<DigitsOf(Head(mentions))>> ELSE <<>>)
         \o IdParts(Tail(mentions))

\* analyze_text step 3: the tokens "word + digits" tagged NOUN or PROPN
RECURSIVE PatternTokens(_, _)
PatternTokens(doc, i) ==
    IF i > Len(doc) THEN <<>>
    ELSE (IF pos_(doc, i) \in {"NOUN", "PROPN"} /\ HasDigit(doc[i]) THEN <<doc[i]>> ELSE <<>>)
         \o PatternTokens(doc, i + 1)

\* _verb_to_symptom_noun(verb): the mapping of normal forms (self.morph is set)
_verb_to_symptom_noun(verb) ==
    LET nf == NormalForm(verb) IN
    CASE nf = w_vibrirovatsf -> w_vibraciya
      [] nf = w_shumetsf -> w_shum
      [] nf = w_peregrevatsfsya -> w_peregrev
      [] nf = w_techsf -> w_techsf
      [] nf = w_zavisatsf -> w_zavisanie
      [] nf = w_ostanavlivatsfsya -> w_ostanovka
      [] OTHER -> None

\* the least index in 1..n that satisfies P, 0 when there is none: a for loop
\* that returns at its first hit
FirstIndex(n, P(_)) ==
    IF \E i \in 1..n : P(i) THEN CHOOSE i \in 1..n : P(i) /\ \A j \in 1..(i - 1) : ~P(j) ELSE 0

\* _determine_equipment_type step 1: a known type named inside mention eq
TypeInMention(eq) ==
    LET Hit(t) == \/ Contains(Lower(eq), Lower(equipment_types[t].term))
                  \/ \E j \in DOMAIN equipment_types[t].variants :
                         Contains(Lower(eq), Lower(equipment_types[t].variants[j]))
    IN FirstIndex(Len(equipment_types), Hit)

BreakdownLemmas == {w_slomatsfsya, w_ostanovitsfsya, w_peregretsfsya}

\* _determine_equipment_type with the per-token dictionary search asked before the
\* found-equipment list
_determine_equipment_type_tokens_first(doc, found_equipment) ==
    LET Known(e) == TypeInMention(found_equipment[e]) > 0
        e1 == FirstIndex(Len(found_equipment), Known)
        InDict(i) == Truthy(_match_term(doc[i], equipment_types))
        t2 == FirstIndex(Len(doc), InDict)
    IN IF t2 > 0 THEN Capitalize(_match_term(doc[t2], equipment_types))
       ELSE IF found_equipment = <<>> THEN w_Neizvestnoe_oborudovanie
       ELSE IF e1 > 0
       THEN Capitalize(equipment_types[TypeInMention(found_equipment[e1])].term)
       ELSE Capitalize(found_equipment[1])

_determine_equipment_type(doc, found_equipment) ==
    LET Known(e) == TypeInMention(found_equipment[e]) > 0
        e1 == FirstIndex(Len(found_equipment), Known)
        InDict(i) == Truthy(_match_term(doc[i], equipment_types))
        t2 == FirstIndex(Len(doc), InDict)
        Broke(i) == lemma_(doc, i) \in BreakdownLemmas /\ pos_(doc, i + 1) \in {"NOUN", "PROPN"}
        t3 == FirstIndex(Len(doc) - 1, Broke)
    IN IF found_equipment # <<>>
       THEN (IF e1 > 0
             THEN Capitalize(equipment_types[TypeInMention(found_equipment[e1])].term)
             ELSE Capitalize(found_equipment[1]))
       ELSE IF t2 > 0 THEN Capitalize(_match_term(doc[t2], equipment_types))
       ELSE IF t3 > 0 THEN Capitalize(doc[t3 + 1])
       ELSE w_Neizvestnoe_oborudovanie

\* the terms that _match_term finds for the token texts of doc
DictTerms(doc, term_dict) ==
    {_match_term(doc[i], term_dict) : i \in DOMAIN doc} \ {None}

\* _get_components_from_dict(doc), as the set its list is built from
_get_components_from_dict(doc) ==
    IF DictTerms(doc, components) # {} THEN DictTerms(doc, components) ELSE {w_Ne_ukazany}

\* _get_symptoms_from_dict(doc), as the set its list is built from
_get_symptoms_from_dict(doc) ==
    IF DictTerms(doc, symptoms) # {} THEN DictTerms(doc, symptoms) ELSE {w_Simptomy_ne_opisany}

\* any(word in text_lower for word in words)
AnyIn(words, text_lower) == \E w \in Range(words) : Contains(text_lower, w)

\* urgency_words with the low level written before the high one
urgency_words_low_first == <<
    [level |-> w_nizkaya, words |-> <<w_planovyj, w_ne_srochno, w_profilaktika>>],
    [level |-> w_vysokaya, words |-> <<w_srochno, w_avariya, w_ostanovka, w_kritichn>>] >>

\* _detect_urgency of src/istok_nlp.py: the levels in the order of the dict
urgency_words == <<
    [level |-> w_vysokaya, words |-> <<w_srochno, w_avariya, w_ostanovka, w_kritichn>>],
    [level |-> w_nizkaya, words |-> <<w_planovyj, w_ne_srochno, w_profilaktika>>] >>

UrgencyBy(levels, text) ==
    LET Hit(l) == AnyIn(levels[l].words, Lower(text))
        l1 == FirstIndex(Len(levels), Hit)
    IN IF l1 > 0 THEN Capitalize(levels[l1].level) ELSE w_Srednyaya

_detect_urgency(doc) == UrgencyBy(urgency_words, DocText(doc))

\* datetime.now().strftime(...): the wall clock, no text of the report
Now == <<"<now>">>

_get_timestamp(doc, es) ==
    IF EntTexts(doc, es, "DATE") # <<>> THEN EntTexts(doc, es, "DATE")[1] ELSE Now

RECURSIVE UnknownFrom(_, _, _)
UnknownFrom(doc, es, i) ==
    IF i > Len(doc) THEN <<>>
    ELSE (IF /\ pos_(doc, i) \in {"NOUN", "PROPN"}
             /\ ~\E k \in DOMAIN es : EntText(doc, es[k]) = doc[i]
          THEN <<doc[i]>> ELSE <<>>)
         \o UnknownFrom(doc, es, i + 1)

_find_unknown_terms(doc, es) == UnknownFrom(doc, es, 1)

\* list(s) of a set s: its elements once each, in an order the run chooses
ListsOf(s) == {l \in [1..Cardinality(s) -> s] : Range(l) = s}

(***************************************************************************)
(* _get_symptoms(doc): six layers that add to one set                      *)
(***************************************************************************)
\* doc.sents of the sentencizer: a sentence starts at the first token and at
\* every token that follows a full stop and is not one itself
SentStarts(doc) ==
    {i \in DOMAIN doc : i = 1 \/ (doc[i - 1] = w_dot /\ doc[i] # w_dot)}

SentEnd(doc, s) ==
    IF \E t \in SentStarts(doc) : t > s
    THEN (CHOOSE t \in SentStarts(doc) : t > s /\ \A u \in SentStarts(doc) : u > s => t <= u) - 1
    ELSE Len(doc)

\* sent.text.lower() of every sentence
SentTexts(doc) == {Lower(SpanText(doc, s, SentEnd(doc, s))) : s \in SentStarts(doc)}

\* 1. the spans tagged SYMPTOM, lower-cased
SymptomsNer(doc, es) == {Lower(t) : t \in Range(EntTexts(doc, es, "SYMPTOM"))}

\* 2. the text and the lemma of every token
SymptomsTokens(doc) ==
    ({_match_term(doc[i], symptoms) : i \in DOMAIN doc} \cup
     {_match_term(lemma_(doc, i), symptoms) : i \in DOMAIN doc}) \ {None}

\* 3. the noun form of every VERB or ADJ token
SymptomsVerbs(doc) ==
    {_match_term(_convert_verb_to_noun(doc[i]), symptoms) :
        i \in {k \in DOMAIN doc : pos_(doc, k) \in {"VERB", "ADJ"}
                                  /\ Truthy(_convert_verb_to_noun(doc[k]))}} \ {None}

\* 4. the phrases of two adjacent tokens
SymptomsPhrases(doc) ==
    {_match_term(Phrase(doc[i], doc[i + 1]), symptoms) : i \in 1..(Len(doc) - 1)} \ {None}

\* 5. the variants found inside a sentence ("sentencizer" is always in the pipeline)
SymptomsSentences(doc) ==
    {symptoms[k].term : k \in {n \in DOMAIN symptoms :
        \E st \in SentTexts(doc) : AnyIn(symptoms[n].variants, st)}}

\* 6. the additional rules on the whole text
SymptomsRules(doc) ==
    LET text_lower == Lower(DocText(doc)) IN
    (IF AnyIn(<<w_vibriruet, w_drozhit, w_tryasetsya>>, text_lower) THEN {w_vibraciya} ELSE {}) \cup
    (IF AnyIn(<<w_shumit, w_gudit, w_skripit>>, text_lower) THEN {w_shum} ELSE {}) \cup
    (IF AnyIn(<<w_peregrevaetsya, w_nagrevaetsya>>, text_lower) THEN {w_peregrev} ELSE {})

\* the layers made exclusive: a later layer is asked only when those before it
\* found nothing
SymptomSet_first_layer_wins(doc, es) ==
    IF SymptomsNer(doc, es) # {} THEN SymptomsNer(doc, es)
    ELSE IF SymptomsTokens(doc) # {} THEN SymptomsTokens(doc)
    ELSE IF SymptomsVerbs(doc) # {} THEN SymptomsVerbs(doc)
    ELSE IF SymptomsPhrases(doc) # {} THEN SymptomsPhrases(doc)
    ELSE IF SymptomsSentences(doc) # {} THEN SymptomsSentences(doc)
    ELSE SymptomsRules(doc)

\* the set of _get_symptoms before it is listed
SymptomSet(doc, es) ==
    SymptomsNer(doc, es) \cup SymptomsTokens(doc) \cup SymptomsVerbs(doc) \cup
    SymptomsPhrases(doc) \cup SymptomsSentences(doc) \cup SymptomsRules(doc)

\* list(symptoms) if symptoms else ["Симптомы не описаны"]
_get_symptoms(doc, es) ==
    LET found == SymptomSet(doc, es) IN
    IF found # {} THEN ListsOf(found) ELSE {<<w_Simptomy_ne_opisany>>}

(***************************************************************************)
(* _get_equipment_type(doc): the single tokens first, then the pairs of    *)
(* adjacent tokens                                                         *)
(***************************************************************************)
\* first loop: the first token whose noun form matches an entry
RECURSIVE EquipmentByToken(_, _)
EquipmentByToken(doc, i) ==
    IF i > Len(doc) THEN None
    ELSE LET word == _convert_verb_to_noun(doc[i])
             term == IF Truthy(word) THEN _match_term(word, equipment_types) ELSE None
         IN IF Truthy(term) THEN term ELSE EquipmentByToken(doc, i + 1)

\* second loop: the first pair of adjacent tokens whose phrase matches an entry
RECURSIVE EquipmentByPhrase(_, _)
EquipmentByPhrase(doc, i) ==
    IF i > Len(doc) - 1 THEN None
    ELSE LET term == _match_term(Phrase(doc[i], doc[i + 1]), equipment_types)
         IN IF Truthy(term) THEN term ELSE EquipmentByPhrase(doc, i + 1)

\* _get_equipment_type with the two loops in the other order
_get_equipment_type_compound_first(doc) ==
    IF Truthy(EquipmentByPhrase(doc, 1)) THEN Capitalize(EquipmentByPhrase(doc, 1))
    ELSE IF Truthy(EquipmentByToken(doc, 1)) THEN Capitalize(EquipmentByToken(doc, 1))
    ELSE w_Neizvestnoe_oborudovanie

_get_equipment_type(doc) ==
    IF Truthy(EquipmentByToken(doc, 1)) THEN Capitalize(EquipmentByToken(doc, 1))
    ELSE IF Truthy(EquipmentByPhrase(doc, 1)) THEN Capitalize(EquipmentByPhrase(doc, 1))
    ELSE w_Neizvestnoe_oborudovanie

(***************************************************************************)
(* _detect_urgency of the two other analyzers                              *)
(***************************************************************************)
\* src/istok_nlp_learn.py
urgency_words_learn == <<
    [level |-> w_vysokaya,
     words |-> <<w_srochno, w_avariya, w_ostanovilsya, w_kritichn, w_srochnyj>>],
    [level |-> w_nizkaya, words |-> <<w_neznachitelsfn, w_planovyj, w_ne_srochno>>] >>

_detect_urgency_learn(doc) == UrgencyBy(urgency_words_learn, DocText(doc))

\* src/NLP_with_spaCy.py
_detect_urgency_spacy(doc) ==
    LET text_lower == Lower(DocText(doc)) IN
    IF AnyIn(<<w_srochno, w_avariya, w_ostanovilsya, w_srochnyj>>, text_lower) THEN w_Vysokaya
    ELSE IF Contains(text_lower, w_neznachitelsfnyj) THEN w_Nizkaya
    ELSE w_Srednyaya

(***************************************************************************)
(* The tagger of entities self.ner is a trained black box: for a document  *)
(* it yields any sequence of disjoint labelled spans, in document order.   *)
(***************************************************************************)
MaxEnts == 1

Spans(doc) ==
    {s \in [start : DOMAIN doc, end : DOMAIN doc, label : Labels] : s.start <= s.end}

\* the outputs of a tagger whose labels are ls
TaggerOutputsOf(doc, ls) ==
    {es \in UNION {[1..n -> {s \in Spans(doc) : s.label \in ls}] : n \in 0..MaxEnts} :
        \A k \in 1..(Len(es) - 1) : es[k].end < es[k + 1].start}

TaggerOutputs(doc) == TaggerOutputsOf(doc, Labels)

\* the spans TRAIN_DATA annotates for its report "Шпиндель станка 2 вибрирует"
\* (component, equipment with its number, symptom), which a tagger trained on
\* it can yield beyond the bound of MaxEnts
AnnotatedOutputs(doc) ==
    IF doc = <<w_SHpindelsf, w_stanka, w_2, w_vibriruet>>
    THEN {<<[start |-> 1, end |-> 1, label |-> "COMPONENT"],
            [start |-> 2, end |-> 3, label |-> "EQUIPMENT"],
            [start |-> 4, end |-> 4, label |-> "SYMPTOM"]>>}
    ELSE {}

(***************************************************************************)
(* analyze_text(text)                                                      *)
(***************************************************************************)
\* ner_result with the pattern step run whether or not the tagger found equipment
NerResult_pattern_always(doc, es) ==
    LET equipment == EntTexts(doc, es, "EQUIPMENT") \o PatternTokens(doc, 1)
    IN [equipment |-> equipment,
        equipment_id |-> IdParts(equipment),
        dates |-> EntTexts(doc, es, "DATE"),
        error_codes |-> EntTexts(doc, es, "ERROR_CODE"),
        times |-> EntTexts(doc, es, "TIME"),
        components |-> EntTexts(doc, es, "COMPONENT"),
        symptoms |-> EntTexts(doc, es, "SYMPTOM"),
        actions |-> EntTexts(doc, es, "ACTION")]

\* step 2 and step 3: ner_result (unknown_terms stays [] and is left out of "ner")
NerResult(doc, es) ==
    LET tagged == EntTexts(doc, es, "EQUIPMENT")
        equipment == IF tagged # <<>> THEN tagged ELSE PatternTokens(doc, 1)
    IN [equipment |-> equipment,
        equipment_id |-> IdParts(equipment),
        dates |-> EntTexts(doc, es, "DATE"),
        error_codes |-> EntTexts(doc, es, "ERROR_CODE"),
        times |-> EntTexts(doc, es, "TIME"),
        components |-> EntTexts(doc, es, "COMPONENT"),
        symptoms |-> EntTexts(doc, es, "SYMPTOM"),
        actions |-> EntTexts(doc, es, "ACTION")]

\* any(ner_result.values())
AnyValues(ner) ==
    \/ ner.equipment # <<>> \/ ner.equipment_id # <<>> \/ ner.dates # <<>>
    \/ ner.error_codes # <<>> \/ ner.times # <<>> \/ ner.components # <<>>
    \/ ner.symptoms # <<>> \/ ner.actions # <<>>

\* step 4: the tagged symptoms and the nouns of the VERB tokens
CombinedSymptoms(doc, ner) ==
    Range(ner.symptoms) \cup
    ({_verb_to_symptom_noun(doc[i]) : i \in {k \in DOMAIN doc : pos_(doc, k) = "VERB"}} \ {None})

\* self.morph.parse on self.morph = None, outside any try block
VerbStepRaises(doc) == morph # "ok" /\ \E i \in DOMAIN doc : pos_(doc, i) = "VERB"

Raised == [raised |-> TRUE]

\* analyze_text(text) on doc = self.nlp(text) with the spans es: the results it can
\* return (one per order in which list(set(...)) lists a set)
analyze_text(doc, es) ==
    IF VerbStepRaises(doc)
    THEN {Raised}
    ELSE LET ner == NerResult(doc, es)
             combined == CombinedSymptoms(doc, ner)
             comp_set == IF ner.components # <<>> THEN Range(ner.components)
                         ELSE _get_components_from_dict(doc)
             symp_set == IF combined # {} THEN combined
                         ELSE _get_symptoms_from_dict(doc)
         IN {[raised |-> FALSE,
              ner |-> ner,
              failure_analysis |->
                  [equipment_type |-> _determine_equipment_type(doc, ner.equipment),
                   components |-> comps,
                   symptoms |-> symps,
                   urgency |-> _detect_urgency(doc),
                   timestamp |-> _get_timestamp(doc, es),
                   unknown_terms |-> _find_unknown_terms(doc, es)],
              raw_text |-> DocText(doc),
              success |-> AnyValues(ner)] :
                 comps \in ListsOf(comp_set), symps \in ListsOf(symp_set)}

AnalyzeText ==
    /\ pc = "ready"
    /\ \E es \in TaggerOutputs(query) \cup AnnotatedOutputs(query) :
        /\ ents' = es
        /\ ret' \in analyze_text(query, es)
    /\ pc' = "analyzed"
    /\ UNCHANGED <<assistant_vars, morph, pipe_pos, query, lookup, host_vars>>


(***************************************************************************)
(* The functions under their own calls                                     *)
(***************************************************************************)
\* the call _get_symptoms(doc) on doc = self.nlp(text)
GetSymptoms ==
    /\ pc = "ready"
    /\ \E es \in TaggerOutputsOf(query, {"SYMPTOM", "COMPONENT"}) :
        /\ ents' = es
        /\ ret' \in _get_symptoms(query, es)
    /\ pc' = "symptoms"
    /\ UNCHANGED <<assistant_vars, morph, pipe_pos, query, lookup, host_vars>>

\* the calls _detect_urgency(doc) of the three analyzers
DetectUrgency ==
    /\ pc = "ready"
    /\ ret' = _detect_urgency(query)
    /\ pc' = "urgency"
    /\ UNCHANGED <<assistant_vars, morph, pipe_pos, query, lookup, ents, host_vars>>

DetectUrgencyLearn ==
    /\ pc = "ready"
    /\ ret' = _detect_urgency_learn(query)
    /\ pc' = "urgency_learn"
    /\ UNCHANGED <<assistant_vars, morph, pipe_pos, query, lookup, ents, host_vars>>

DetectUrgencySpacy ==
    /\ pc = "ready"
    /\ ret' = _detect_urgency_spacy(query)
    /\ pc' = "urgency_spacy"
    /\ UNCHANGED <<assistant_vars, morph, pipe_pos, query, lookup, ents, host_vars>>

\* the calls _match_term(text, term_dict) on the four dictionaries
Dictionaries == [equipment_types |-> equipment_types, components |-> components,
                 symptoms |-> symptoms, actions |-> actions]

MatchTerm ==
    /\ pc = "ready"
    /\ \E d \in DOMAIN Dictionaries :
        ret' = [term_dict |-> d, term |-> _match_term(lookup, Dictionaries[d])]
    /\ pc' = "matched"
    /\ UNCHANGED <<assistant_vars, morph, pipe_pos, query, lookup, ents, host_vars>>

\* the call _get_equipment_type(doc)
GetEquipmentType ==
    /\ pc = "ready"
    /\ ret' = _get_equipment_type(query)
    /\ pc' = "equipment_type"
    /\ UNCHANGED <<assistant_vars, morph, pipe_pos, query, lookup, ents, host_vars>>

\* the call _normalize(word)
Normalize ==
    /\ pc = "ready"
    /\ ret' = _normalize(lookup)
    /\ pc' = "normalized"
    /\ UNCHANGED <<assistant_vars, morph, pipe_pos, query, lookup, ents, host_vars>>

(***************************************************************************)
(* Sample reports and the inputs of the calls                              *)
(***************************************************************************)
MaxTokens == 2

\* every report of at most n tokens over the words ws
RECURSIVE ReportsOver(_, _)
ReportsOver(ws, n) ==
    IF n = 0 THEN {<<>>}
    ELSE ReportsOver(ws, n - 1) \cup
         {Append(r, w) : r \in {x \in ReportsOver(ws, n - 1) : Len(x) = n - 1}, w \in ws}

EndToEndReport == <<w_SHpindelsf, w_stanka, w_2, w_vibriruet>>

Corpus == {
    <<>>,
    EndToEndReport,
    <<w_stanok, w_5>>,
    <<w_stanok>>,
    <<w_stanok, w_E15>>,
    <<w_E15>>,
    <<w_shpindelsf>>,
    <<w_remont, w_stanka>>,
    <<w_Srochno, w_planovyj, w_remont>>,
    <<w_shum, w_dot, w_press, w_vibriruet>>,
    <<w_frezer>>,
    <<w_lenta>>,
    <<w_slomalsya, w_val>>,
    <<w_teplovoj, w_rezhim>>,
    <<w_ne, w_srochno>>,
    <<w_kapaet>> }

UrgencyWords == {w_srochno, w_Srochno, w_avariya, w_ostanovka, w_ostanovilsya, w_kritichnaya,
                 w_planovyj, w_profilaktika, w_neznachitelsfnyj, w_ne, w_stanok}

SymptomWords == {w_SHum, w_vibracii, w_vibriruet, w_shumit, w_kapaet, w_teplovoj, w_rezhim,
                 w_dot}

\* every term and variant of a dictionary
WordsOf(term_dict) ==
    UNION {{term_dict[i].term} \cup Range(term_dict[i].variants) : i \in DOMAIN term_dict}

MatchWords ==
    LET known == WordsOf(equipment_types) \cup WordsOf(components) \cup WordsOf(symptoms)
                 \cup WordsOf(actions)
    IN known \cup {Capitalize(w) : w \in known}
             \cup {None, <<>>, w_remonta, w_vibriruet, w_E15, w_5, w_ne, w_dot,
                   Phrase(w_frezernyj, w_stanka), Phrase(w_teplovoj, w_rezhim)}

Init ==
    /\ morph \in {"ok", "none"}
    /\ pipe_pos \in BOOLEAN
    /\ query \in Corpus
    /\ lookup = None
    /\ ents = <<>>
    /\ pc = "ready"
    /\ ret = None
    /\ HostIdle

Next == AnalyzeText

Spec == Init /\ [][Next]_vars

\* _get_symptoms on every short report over the words of symptoms
InitSymptoms ==
    /\ morph \in {"ok", "none"}
    /\ pipe_pos \in BOOLEAN
    /\ query \in ReportsOver(SymptomWords, MaxTokens)
    /\ lookup = None
    /\ ents = <<>>
    /\ pc = "ready"
    /\ ret = None
    /\ HostIdle

NextSymptoms == GetSymptoms

SpecSymptoms == InitSymptoms /\ [][NextSymptoms]_vars

\* _detect_urgency on every short report over the words of urgency
InitUrgency ==
    /\ morph = "ok"
    /\ pipe_pos = FALSE
    /\ query \in ReportsOver(UrgencyWords, MaxTokens + 1)
    /\ lookup = None
    /\ ents = <<>>
    /\ pc = "ready"
    /\ ret = None
    /\ HostIdle

NextUrgency == DetectUrgency \/ DetectUrgencyLearn \/ DetectUrgencySpacy

SpecUrgency == InitUrgency /\ [][NextUrgency]_vars

\* _match_term on every word of the dictionaries and of the reports
InitMatch ==
    /\ morph \in {"ok", "none"}
    /\ pipe_pos = FALSE
    /\ query = <<>>
    /\ lookup \in MatchWords
    /\ ents = <<>>
    /\ pc = "ready"
    /\ ret = None
    /\ HostIdle

NextMatch == MatchTerm

SpecMatch == InitMatch /\ [][NextMatch]_vars

\* _get_equipment_type on every short report over words of equipment
EquipmentWords == {w_frezernyj, w_stanok, w_stanki, w_press, w_frezer, w_shpindelsf,
                   w_vibriruet, w_frezernaya, w_ustanovka}

InitEquipment ==
    /\ morph \in {"ok", "none"}
    /\ pipe_pos = FALSE
    /\ query \in ReportsOver(EquipmentWords, MaxTokens)
    /\ lookup = None
    /\ ents = <<>>
    /\ pc = "ready"
    /\ ret = None
    /\ HostIdle

NextEquipment == GetEquipmentType

SpecEquipment == InitEquipment /\ [][NextEquipment]_vars

\* _normalize on every word of the dictionaries and of the reports, with a working,
\* a missing and a raising analyzer
InitNormalize ==
    /\ morph \in {"ok", "none", "throws"}
    /\ pipe_pos = FALSE
    /\ query = <<>>
    /\ lookup \in MatchWords \cup {w_stanki, w_Srochno}
    /\ ents = <<>>
    /\ pc = "ready"
    /\ ret = None
    /\ HostIdle

NextNormalize == Normalize

SpecNormalize == InitNormalize /\ [][NextNormalize]_vars

(***************************************************************************)
(* The host process.  main() of src/istok_nlp.py and of                    *)
(* src/istok_nlp_learn.py builds an analyzer, trains it when no persisted  *)
(* model "iiot_ner_model" exists, and then analyzes texts; a host may also *)
(* call train_ner_model(train_data, n_iter=...) on an analyzer of its own. *)
(***************************************************************************)
MaxCorpus == 2
MaxIter == 2
MaxQueries == 2

\* the two test queries of main() in src/istok_nlp.py
TestQueries == 2

Programs == {"istok_nlp", "istok_nlp_learn"}

\* a training example is well formed ("ok") or one Example.from_dict rejects ("bad")
Corpora == UNION {[1..n -> {"ok", "bad"}] : n \in 0..MaxCorpus}

\* the TRAIN_DATA of the module: well-formed examples
TRAIN_DATA == [i \in 1..MaxCorpus |-> "ok"]

\* self.urgency_keywords (the levels with keywords the sample reports use)
urgency_keywords == <<
    [level |-> w_vysokaya, words |-> <<w_srochno, w_avariya, w_ostanovka>>],
    [level |-> w_nizkaya, words |-> <<w_planovyj, w_profilaktika>>] >>

\* IIoTAnalyzer(model_path): the weights are loaded when a path is given and exists
Loads(with_path) == with_path /\ disk # Absent

NewAnalyzer(with_path) ==
    [weights |-> IF Loads(with_path) THEN disk ELSE Blank,
     term_dicts |-> Dictionaries,
     urgency_keywords |-> urgency_keywords]

\* train_examples / eval_examples: the 80/20 split of src/istok_nlp.py; the other
\* module trains on every example and evaluates none
TrainCount == IF program = "istok_nlp" THEN (8 * Len(train_data)) \div 10 ELSE Len(train_data)
EvalCount == Len(train_data) - TrainCount

\* minibatch(..., size=compounding(4.0, ...)) and compounding(2.0, ...): the number
\* of batches of one iteration over the short corpora of the model
BatchSize == IF program = "istok_nlp" THEN 4 ELSE 2
Batches == (TrainCount + BatchSize - 1) \div BatchSize

\* main(): analyzer = IIoTAnalyzer(...)
MainConstruct ==
    /\ mpc = "start"
    /\ host = "main"
    /\ LET with_path == program = "istok_nlp" /\ disk # Absent IN
        /\ analyzer' = NewAnalyzer(with_path)
        /\ loads' = IF Loads(with_path) THEN loads + 1 ELSE loads
    /\ mpc' = IF disk = Absent THEN "train_call" ELSE "serving"
    /\ UNCHANGED <<assistant_vars, morph, pipe_pos, query, lookup, ents, pc, ret, program, host, served, disk,
                   tpc, train_data, n_iter, itn, batch, entered, calls>>

\* a host of its own: an analyzer, fresh or loaded, about to be trained
HostConstruct ==
    /\ mpc = "start"
    /\ host = "train"
    /\ \E with_path \in BOOLEAN :
        /\ analyzer' = NewAnalyzer(with_path)
        /\ loads' = IF Loads(with_path) THEN loads + 1 ELSE loads
    /\ mpc' = "train_call"
    /\ UNCHANGED <<assistant_vars, morph, pipe_pos, query, lookup, ents, pc, ret, program, host, served, disk,
                   tpc, train_data, n_iter, itn, batch, entered, calls>>

\* analyzer.train_ner_model(train_data): the call; entered keeps what the weights
\* and the persisted model were at the call
TrainCall ==
    /\ mpc = "train_call"
    /\ tpc = "idle"
    /\ mpc' = "training"
    /\ tpc' = "labels"
    /\ entered' = [weights |-> analyzer.weights, disk |-> disk]
    /\ UNCHANGED <<assistant_vars, morph, pipe_pos, query, lookup, ents, pc, ret, program, host, served, loads,
                   analyzer, disk, train_data, n_iter, itn, batch, calls>>

\* train_ner_model, step 1: the labels of the corpus are added to the tagger
TrainLabels ==
    /\ tpc = "labels"
    /\ tpc' = "examples"
    /\ UNCHANGED <<assistant_vars, morph, pipe_pos, query, lookup, ents, pc, ret, program, host, mpc, served,
                   loads, analyzer, disk, train_data, n_iter, itn, batch, entered, calls>>

\* step 2: Example.from_dict for every example; a malformed one raises
TrainExamples ==
    /\ tpc = "examples"
    /\ tpc' = IF \E i \in DOMAIN train_data : train_data[i] = "bad" THEN "raised" ELSE "begin"
    /\ UNCHANGED <<assistant_vars, morph, pipe_pos, query, lookup, ents, pc, ret, program, host, mpc, served,
                   loads, analyzer, disk, train_data, n_iter, itn, batch, entered, calls>>

\* optimizer = self.nlp.begin_training(): the weights are initialized anew
TrainBegin ==
    /\ tpc = "begin"
    /\ analyzer' = [analyzer EXCEPT !.weights = Run(0)]
    /\ itn' = 0
    /\ batch' = 0
    /\ tpc' = "batches"
    /\ UNCHANGED <<assistant_vars, morph, pipe_pos, query, lookup, ents, pc, ret, program, host, mpc, served,
                   loads, disk, train_data, n_iter, entered, calls>>

\* self.nlp.update(batch, ...) is entered for the next batch of the iteration
TrainUpdate ==
    /\ tpc = "batches"
    /\ batch < Batches
    /\ tpc' = "updating"
    /\ UNCHANGED <<assistant_vars, morph, pipe_pos, query, lookup, ents, pc, ret, program, host, mpc, served,
                   loads, analyzer, disk, train_data, n_iter, itn, batch, entered, calls>>

\* self.nlp.update returns: the weights have moved
TrainUpdated ==
    /\ tpc = "updating"
    /\ analyzer' = [analyzer EXCEPT !.weights = Run(@.updates + 1)]
    /\ batch' = batch + 1
    /\ tpc' = "batches"
    /\ UNCHANGED <<assistant_vars, morph, pipe_pos, query, lookup, ents, pc, ret, program, host, mpc, served,
                   loads, disk, train_data, n_iter, itn, entered, calls>>

\* the evaluation of src/istok_nlp.py: doc = self.nlp(eval_ex.reference.text) is
\* entered for the examples held out
TrainEval ==
    /\ tpc = "batches"
    /\ batch = Batches
    /\ tpc' = IF EvalCount > 0 THEN "evaluating" ELSE "report"
    /\ UNCHANGED <<assistant_vars, morph, pipe_pos, query, lookup, ents, pc, ret, program, host, mpc, served,
                   loads, analyzer, disk, train_data, n_iter, itn, batch, entered, calls>>

TrainEvaluated ==
    /\ tpc = "evaluating"
    /\ tpc' = "report"
    /\ UNCHANGED <<assistant_vars, morph, pipe_pos, query, lookup, ents, pc, ret, program, host, mpc, served,
                   loads, analyzer, disk, train_data, n_iter, itn, batch, entered, calls>>

\* the print that ends an iteration: losses['ner'] in src/istok_nlp.py is a
\* KeyError when no batch was updated, losses.get('ner', 0) in the other module
\* is not
TrainReport ==
    /\ tpc = "report"
    /\ IF program = "istok_nlp" /\ Batches = 0
       THEN tpc' = "raised" /\ UNCHANGED <<itn, batch>>
       ELSE /\ itn' = itn + 1
            /\ batch' = 0
            /\ tpc' = IF itn + 1 < n_iter THEN "batches" ELSE "save"
    /\ UNCHANGED <<assistant_vars, morph, pipe_pos, query, lookup, ents, pc, ret, program, host, mpc, served,
                   loads, analyzer, disk, train_data, n_iter, entered, calls>>

\* self.nlp.to_disk(output_dir)
TrainSave ==
    /\ tpc = "save"
    /\ disk' = analyzer.weights
    /\ tpc' = "returned"
    /\ UNCHANGED <<assistant_vars, morph, pipe_pos, query, lookup, ents, pc, ret, program, host, mpc, served,
                   loads, analyzer, train_data, n_iter, itn, batch, entered, calls>>

\* train_ner_model returns to its caller
TrainReturn ==
    /\ mpc = "training"
    /\ tpc = "returned"
    /\ tpc' = "idle"
    /\ mpc' = IF host = "train" THEN "done"
              ELSE IF program = "istok_nlp" THEN "serving" ELSE "reload"
    /\ UNCHANGED <<assistant_vars, morph, pipe_pos, query, lookup, ents, pc, ret, program, host, served, loads,
                   analyzer, disk, train_data, n_iter, itn, batch, entered, calls>>

\* an exception leaves train_ner_model: neither it nor main() catches anything
TrainRaise ==
    /\ mpc = "training"
    /\ tpc = "raised"
    /\ tpc' = "idle"
    /\ mpc' = "crashed"
    /\ UNCHANGED <<assistant_vars, morph, pipe_pos, query, lookup, ents, pc, ret, program, host, served, loads,
                   analyzer, disk, train_data, n_iter, itn, batch, entered, calls>>

\* main() of src/istok_nlp_learn.py: analyzer = IIoTAnalyzer("iiot_ner_model")
MainReload ==
    /\ mpc = "reload"
    /\ analyzer' = NewAnalyzer(TRUE)
    /\ loads' = IF Loads(TRUE) THEN loads + 1 ELSE loads
    /\ mpc' = "serving"
    /\ UNCHANGED <<assistant_vars, morph, pipe_pos, query, lookup, ents, pc, ret, program, host, served, disk,
                   tpc, train_data, n_iter, itn, batch, entered, calls>>

\* a host that serves texts while the training it started is still running
MainMayAnalyze_while_training == mpc \in {"serving", "training"}

\* the loop of main() calls analyze_text only from its own statement sequence
MainMayAnalyze == mpc = "serving"

\* the texts a run analyzes: the test queries, or what the user types before "выход"
QueryLimit == IF program = "istok_nlp" THEN TestQueries ELSE MaxQueries

\* analysis = analyzer.analyze_text(query) is entered
MainAnalyze ==
    /\ MainMayAnalyze
    /\ served < QueryLimit
    /\ mpc' = "analyzing"
    /\ UNCHANGED <<assistant_vars, morph, pipe_pos, query, lookup, ents, pc, ret, program, host, served, loads,
                   analyzer, disk, tpc, train_data, n_iter, itn, batch, entered, calls>>

\* analyze_text returns
MainAnalyzed ==
    /\ mpc = "analyzing"
    /\ served' = served + 1
    /\ mpc' = "serving"
    /\ UNCHANGED <<assistant_vars, morph, pipe_pos, query, lookup, ents, pc, ret, program, host, loads,
                   analyzer, disk, tpc, train_data, n_iter, itn, batch, entered, calls>>

\* the loop ends: after the last test query, or when the user types "выход"
MainExit ==
    /\ mpc = "serving"
    /\ program = "istok_nlp" => served = TestQueries
    /\ mpc' = "done"
    /\ UNCHANGED <<assistant_vars, morph, pipe_pos, query, lookup, ents, pc, ret, program, host, served, loads,
                   analyzer, disk, tpc, train_data, n_iter, itn, batch, entered, calls>>

InitHost ==
    /\ morph = "ok"
    /\ pipe_pos = FALSE
    /\ query = <<>>
    /\ lookup = None
    /\ ents = <<>>
    /\ pc = "host"
    /\ ret = None
    /\ program \in Programs
    /\ host \in {"main", "train"}
    /\ mpc = "start"
    /\ served = 0
    /\ loads = 0
    /\ analyzer = NoAnalyzer
    /\ disk \in {Absent, Old}
    /\ tpc = "idle"
    /\ train_data \in (IF host = "main" THEN {TRAIN_DATA} ELSE Corpora)
    /\ n_iter \in (IF host = "main" THEN {MaxIter} ELSE 1..MaxIter)
    /\ itn = 0
    /\ batch = 0
    /\ entered = NotEntered
    /\ calls = <<>>
    /\ AssistantIdle

NextHost ==
    \/ MainConstruct \/ HostConstruct \/ TrainCall
    \/ TrainLabels \/ TrainExamples \/ TrainBegin \/ TrainUpdate \/ TrainUpdated
    \/ TrainEval \/ TrainEvaluated \/ TrainReport \/ TrainSave
    \/ TrainReturn \/ TrainRaise
    \/ MainReload \/ MainAnalyze \/ MainAnalyzed \/ MainExit

SpecHost == InitHost /\ [][NextHost]_vars

(***************************************************************************)
(* Calls of analyze_text in parallel on one analyzer: each caller enters   *)
(* with doc = self.nlp(text), which reads the weights, and leaves with its *)
(* result; the steps of the callers interleave in any order.               *)
(***************************************************************************)
Callers == {"a", "b"}

ParallelTexts == {<<w_shum>>, <<w_stanok, w_vibriruet>>, <<w_kapaet>>}

NoCall == [pc |-> "idle", text |-> <<>>, ents |-> <<>>, ret |-> None]

\* an analyze_text that learns from the texts it sees
AnalyzerAfterAnalyze_learning(a) == [a EXCEPT !.weights = Run(@.updates + 1)]

\* what analyze_text and its helpers assign to self: nothing
AnalyzerAfterAnalyze(a) == a

BeginAnalyze(c) ==
    /\ mpc = "serving"
    /\ calls[c].pc = "idle"
    /\ \E text \in ParallelTexts :
        \E es \in TaggerOutputsOf(text, {"SYMPTOM", "EQUIPMENT"}) :
            calls' = [calls EXCEPT ![c] = [pc |-> "running", text |-> text, ents |-> es,
                                           ret |-> None]]
    /\ UNCHANGED <<assistant_vars, morph, pipe_pos, query, lookup, ents, pc, ret, program, host, mpc, served,
                   loads, analyzer, disk, tpc, train_data, n_iter, itn, batch, entered>>

FinishAnalyze(c) ==
    /\ calls[c].pc = "running"
    /\ \E r \in analyze_text(calls[c].text, calls[c].ents) :
        calls' = [calls EXCEPT ![c].pc = "done", ![c].ret = r]
    /\ analyzer' = AnalyzerAfterAnalyze(analyzer)
    /\ UNCHANGED <<assistant_vars, morph, pipe_pos, query, lookup, ents, pc, ret, program, host, mpc, served,
                   loads, disk, tpc, train_data, n_iter, itn, batch, entered>>

InitParallel ==
    /\ morph = "ok"
    /\ pipe_pos \in BOOLEAN
    /\ query = <<>>
    /\ lookup = None
    /\ ents = <<>>
    /\ pc = "host"
    /\ ret = None
    /\ program = "istok_nlp"
    /\ host = "main"
    /\ mpc = "serving"
    /\ served = 0
    /\ loads = 1
    /\ disk = Old
    /\ analyzer = NewAnalyzer(TRUE)
    /\ tpc = "idle"
    /\ train_data = <<>>
    /\ n_iter = 0
    /\ itn = 0
    /\ batch = 0
    /\ entered = NotEntered
    /\ calls = [c \in Callers |-> NoCall]
    /\ AssistantIdle

NextParallel == \E c \in Callers : BeginAnalyze(c) \/ FinishAnalyze(c)

SpecParallel == InitParallel /\ [][NextParallel]_vars

(***************************************************************************)
(* Claims about analyze_text (specification Spec)                          *)
(***************************************************************************)
w_Stanok == <<"S", "t", "a", "n", "o", "k">>
w_Vibraciya == <<"V", "i", "b", "r", "a", "c", "i", "ya">>

\* analyze_text has returned a result computed with a working self.morph
Returned == pc = "analyzed" /\ morph = "ok"

\* the spans the tagger gave for a label
Tagged(label) == EntTexts(query, ents, label)

\* C1: analyze_text on the report "Шпиндель станка 2 вибрирует" gives equipment
\* "Станок", equipment_id "2", components {"Шпиндель"}, symptoms {"Вибрация"} and
\* urgency "Средняя".  The claim names no tagger output; it is stated here for the
\* output most favourable to it, the spans the training data annotates.
C1_EndToEnd ==
    (Returned /\ query = EndToEndReport /\ ents \in AnnotatedOutputs(query)) =>
        /\ ret.failure_analysis.equipment_type = w_Stanok
        /\ ret.ner.equipment_id = <<w_2>>
        /\ Range(ret.failure_analysis.components) = {w_SHpindelsf}
        /\ Range(ret.failure_analysis.symptoms) = {w_Vibraciya}
        /\ ret.failure_analysis.urgency = w_Srednyaya

\* C2: when the tagger yields no EQUIPMENT span and the dictionary matcher matches
\* some token to an equipment key, the equipment_type of the result is such a key,
\* capitalized, and nothing else.
C2_FusionBackfill ==
    (Returned /\ Tagged("EQUIPMENT") = <<>> /\ DictTerms(query, equipment_types) # {}) =>
        ret.failure_analysis.equipment_type \in
            {Capitalize(k) : k \in DictTerms(query, equipment_types)}

\* C3: for each category the result holds the spans of the tagger when it gave at
\* least one, and the output of the rule-based extractor of the category exactly
\* when it gave none.
C3_FusionPreference ==
    Returned =>
        /\ Range(ret.failure_analysis.components) =
               (IF Tagged("COMPONENT") # <<>> THEN Range(Tagged("COMPONENT"))
                ELSE _get_components_from_dict(query))
        /\ Range(ret.failure_analysis.symptoms) =
               (IF Tagged("SYMPTOM") # <<>> THEN Range(Tagged("SYMPTOM"))
                ELSE _get_symptoms_from_dict(query))
        /\ Range(ret.ner.actions) =
               (IF Tagged("ACTION") # <<>> THEN Range(Tagged("ACTION"))
                ELSE DictTerms(query, actions))
        /\ (Tagged("EQUIPMENT") # <<>> => ret.ner.equipment = Tagged("EQUIPMENT"))
        /\ (Tagged("ERROR_CODE") # <<>> => ret.ner.error_codes = Tagged("ERROR_CODE"))
        /\ (Tagged("TIME") # <<>> => ret.ner.times = Tagged("TIME"))
        /\ ret.failure_analysis.timestamp =
               (IF Tagged("DATE") # <<>> THEN Tagged("DATE")[1] ELSE Now)

\* some category has a result of the tagger
TaggerFound ==
    \E l \in {"EQUIPMENT", "COMPONENT", "SYMPTOM", "ACTION", "ERROR_CODE", "DATE", "TIME"} :
        Tagged(l) # <<>>

\* some category has a result of the rule-based extractor
RulesFound ==
    \/ DictTerms(query, equipment_types) # {}
    \/ DictTerms(query, components) # {}
    \/ DictTerms(query, symptoms) # {}
    \/ PatternTokens(query, 1) # <<>>

\* C4: success is true exactly when the tagger or the rule-based extractor gave a
\* non-empty result for some category.
C4_Success == Returned => (ret.success <=> (TaggerFound \/ RulesFound))

\* C5: analyze_text on the empty text does not raise and every field of its result
\* holds its sentinel: unknown equipment, components, symptoms and id not specified,
\* medium urgency, the fallback timestamp.
C5_EmptyInput ==
    (pc = "analyzed" /\ query = <<>>) =>
        /\ ~ret.raised
        /\ ret.failure_analysis.equipment_type = w_Neizvestnoe_oborudovanie
        /\ ret.failure_analysis.components = <<w_Ne_ukazany>>
        /\ ret.failure_analysis.symptoms = <<w_Simptomy_ne_opisany>>
        /\ ret.failure_analysis.urgency = w_Srednyaya
        /\ ret.failure_analysis.timestamp = Now
        /\ ret.ner.equipment_id # <<>>

\* C6: components, symptoms and actions of every result are non-empty.
C6_NeverEmpty ==
    Returned =>
        /\ ret.failure_analysis.components # <<>>
        /\ ret.failure_analysis.symptoms # <<>>
        /\ ret.ner.actions # <<>>

\* C8: the report "станок 5" gives equipment_id "5"; the report "станок", which holds
\* no digit, gives the sentinel and no empty value.
C8_EquipmentId ==
    /\ (Returned /\ query = <<w_stanok, w_5>>) => ret.ner.equipment_id = <<w_5>>
    /\ (Returned /\ query = <<w_stanok>>) => ret.ner.equipment_id # <<>>

(***************************************************************************)
(* Claim about _detect_urgency (specification SpecUrgency)                 *)
(***************************************************************************)
\* the text holds a keyword of hi and a keyword of lo
HoldsBoth(hi, lo) ==
    LET text_lower == Lower(DocText(query)) IN
    /\ \E h \in hi : Contains(text_lower, h)
    /\ \E l \in lo : Contains(text_lower, l)

\* C7: a text that holds a high-urgency keyword and a low-urgency keyword is classified
\* "Высокая" by each of the three _detect_urgency.
C7_UrgencyPriority ==
    /\ (pc = "urgency"
        /\ HoldsBoth({w_srochno, w_avariya, w_ostanovka, w_kritichn},
                     {w_planovyj, w_ne_srochno, w_profilaktika}))
       => ret = w_Vysokaya
    /\ (pc = "urgency_learn"
        /\ HoldsBoth({w_srochno, w_avariya, w_ostanovilsya, w_kritichn, w_srochnyj},
                     {w_neznachitelsfn, w_planovyj, w_ne_srochno}))
       => ret = w_Vysokaya
    /\ (pc = "urgency_spacy"
        /\ HoldsBoth({w_srochno, w_avariya, w_ostanovilsya, w_srochnyj},
                     {w_neznachitelsfnyj}))
       => ret = w_Vysokaya

\* "Срочно плановый ..." was classified high by _detect_urgency of istok_nlp.py
C7_Witness ==
    /\ pc = "urgency"
    /\ Len(query) >= 2 /\ query[1] = w_Srochno /\ query[2] = w_planovyj
    /\ ret = w_Vysokaya

(***************************************************************************)
(* Claim about _get_symptoms (specification SpecSymptoms)                  *)
(***************************************************************************)
\* C9: the list of _get_symptoms holds the hits of every layer: the term of every
\* token or pair of adjacent tokens that is a variant in the dictionary, the symptom
\* of every verb trigger in the text, every span tagged SYMPTOM; and it holds no
\* element twice.
C9_SymptomUnion ==
    pc = "symptoms" =>
        LET got == Range(ret)
            text_lower == Lower(DocText(query))
            Triggers(ws) == \E w \in ws : Contains(text_lower, w)
        IN /\ \A i \in DOMAIN query, k \in DOMAIN symptoms :
                  Lower(query[i]) \in Range(symptoms[k].variants) => symptoms[k].term \in got
           /\ \A i \in 1..(Len(query) - 1), k \in DOMAIN symptoms :
                  Phrase(Lower(query[i]), Lower(query[i + 1])) \in Range(symptoms[k].variants)
                      => symptoms[k].term \in got
           /\ Triggers({w_vibriruet, w_drozhit, w_tryasetsya}) => w_vibraciya \in got
           /\ Triggers({w_shumit, w_gudit, w_skripit}) => w_shum \in got
           /\ Triggers({w_peregrevaetsya, w_nagrevaetsya}) => w_peregrev \in got
           /\ \A k \in DOMAIN ents :
                  ents[k].label = "SYMPTOM" => Lower(EntText(query, ents[k])) \in got
           /\ \A i \in DOMAIN ret, j \in DOMAIN ret : i # j => ret[i] # ret[j]

\* "Шум вибрирует": the dictionary word and the verb trigger gave two symptoms
C9_Witness ==
    /\ pc = "symptoms"
    /\ query = <<w_SHum, w_vibriruet>>
    /\ Range(ret) = {w_shum, w_vibraciya}
    /\ Len(ret) = 2

(***************************************************************************)
(* Claim about _match_term (specification SpecMatch)                       *)
(***************************************************************************)
\* entry i of term_dict qualifies for the normalized input n
Qualifies(n, term_dict, i) ==
    \/ n = term_dict[i].term
    \/ n \in {_normalize(Lower(v)) : v \in Range(term_dict[i].variants)}

\* C10: _match_term returns the term of the first entry, in definition order, whose
\* key or a normalized variant equals the normalized input, and None when no entry
\* qualifies; "фрезер", a variant of "станок" and of "фрезерный станок", gives the
\* earlier key "станок".
C10_FirstMatch ==
    pc = "matched" =>
        LET d == Dictionaries[ret.term_dict]
            n == _normalize(Lower(lookup))
            hits == IF lookup = None THEN {}
                    ELSE {i \in DOMAIN d : Qualifies(n, d, i)}
        IN /\ hits = {} => ret.term = None
           /\ hits # {} => \E i \in hits : (\A j \in hits : i <= j) /\ ret.term = d[i].term
           /\ (lookup = w_frezer /\ ret.term_dict = "equipment_types") => ret.term = w_stanok

\* "фрезер" was looked up in equipment_types and gave "станок"
C10_Witness ==
    /\ pc = "matched"
    /\ lookup = w_frezer
    /\ ret.term_dict = "equipment_types"
    /\ ret.term = w_stanok
\* C15: a morphological analyzer that is missing or raises never makes analyze_text
\* raise: the call returns a result.
C15_NoPropagation == pc = "analyzed" => ~ret.raised

(***************************************************************************)
(* Claims about _get_equipment_type (specification SpecEquipment)          *)
(***************************************************************************)
\* token i of the report matches an entry of equipment_types
TokenMatches(i) == \E k \in DOMAIN equipment_types :
    Qualifies(_normalize(Lower(query[i])), equipment_types, k)

\* the phrase of tokens i and i + 1 matches an entry of equipment_types
PairMatches(i) == \E k \in DOMAIN equipment_types :
    Qualifies(_normalize(Lower(Phrase(query[i], query[i + 1]))), equipment_types, k)

TokenHits == {i \in DOMAIN query : TokenMatches(i)}
PairHits == {i \in 1..(Len(query) - 1) : PairMatches(i)}
Least(S) == CHOOSE i \in S : \A j \in S : i <= j

\* C11, as stated: _get_equipment_type on any report holding the token "фрезерный"
\* returns "Станок".
C11_AnySentence ==
    (pc = "equipment_type" /\ \E i \in DOMAIN query : query[i] = w_frezernyj)
        => ret = w_Stanok

\* C11, amended: _get_equipment_type returns "Станок" on a report holding "фрезерный"
\* when no token before it matches an entry of another key; an inflected form that
\* is no variant itself ("станки") is matched through its normal form; in general
\* the first matching token decides, and gives the key of the first entry it
\* qualifies for, capitalized.
C11_InflectedVariant ==
    pc = "equipment_type" =>
        /\ (\E i \in DOMAIN query :
                /\ query[i] = w_frezernyj
                /\ \A j \in 1..(i - 1) :
                       _match_term(query[j], equipment_types) \in {None, w_stanok})
            => ret = w_Stanok
        /\ (morph = "ok" /\ query # <<>> /\ query[1] = w_stanki) => ret = w_Stanok
        /\ TokenHits # {} =>
            LET n == _normalize(Lower(query[Least(TokenHits)]))
                k == Least({e \in DOMAIN equipment_types : Qualifies(n, equipment_types, e)})
            IN ret = Capitalize(equipment_types[k].term)

\* "станки фрезерный" gave "Станок" through the normal form of "станки"
C11_Witness ==
    /\ pc = "equipment_type"
    /\ query = <<w_stanki, w_frezernyj>>
    /\ morph = "ok"
    /\ ret = w_Stanok

\* C12: the phrase of each pair of adjacent tokens is tried before the single
\* tokens, so a report with a matching pair yields the concept of the pair.
C12_CompoundFirst ==
    (pc = "equipment_type" /\ PairHits # {}) =>
        ret = Capitalize(_match_term(Phrase(query[Least(PairHits)], query[Least(PairHits) + 1]),
                                     equipment_types))

\* C13: _get_equipment_type tries every single token first, then every pair of
\* adjacent tokens, and returns the first match; it returns "Неизвестное
\* оборудование" exactly when neither pass matches an entry.
C13_SingleThenCompound ==
    pc = "equipment_type" =>
        /\ TokenHits # {} =>
            ret = Capitalize(_match_term(query[Least(TokenHits)], equipment_types))
        /\ (TokenHits = {} /\ PairHits # {}) =>
            ret = Capitalize(_match_term(Phrase(query[Least(PairHits)],
                                                query[Least(PairHits) + 1]), equipment_types))
        /\ (ret = w_Neizvestnoe_oborudovanie) <=> (TokenHits = {} /\ PairHits = {})

\* "фрезерный станок" holds a matching pair and matching tokens: the token decided
C13_Witness ==
    /\ pc = "equipment_type"
    /\ query = <<w_frezernyj, w_stanok>>
    /\ PairHits # {}
    /\ ret = w_Stanok

\* "фрезерная установка" without the analyzer: no token matched, the pair did
C13_PairDecided ==
    /\ pc = "equipment_type"
    /\ query = <<w_frezernaya, w_ustanovka>>
    /\ TokenHits = {}
    /\ ret = Capitalize(w_frezernyj_stanok)

(***************************************************************************)
(* Claim about _normalize (specification SpecNormalize)                    *)
(***************************************************************************)
\* C14: _normalize never raises: for every word, the empty word, a missing analyzer
\* and a raising analyzer included, it returns a str; for the empty word, a word the
\* analyzer does not know, a missing or a raising analyzer the str is the
\* lower-cased input.
C14_NormalizeNeverRaises ==
    pc = "normalized" =>
        /\ ret # Raises
        /\ ret # None
        /\ lookup \in {<<>>, None} => ret = <<>>
        /\ (lookup \notin {<<>>, None} /\ (morph # "ok" \/ lookup \in {w_E15, w_frezer}))
            => ret = Lower(lookup)

\* the capitalized "Срочно" was normalized by a raising analyzer
C14_Witness ==
    /\ pc = "normalized"
    /\ morph = "throws"
    /\ lookup = w_Srochno
    /\ ret = w_srochno
(***************************************************************************)
(* Claims about training and main (specification SpecHost)                 *)
(***************************************************************************)
\* the corpus cannot train a tagger: it is empty or holds a malformed example
Unusable == train_data = <<>> \/ \E i \in DOMAIN train_data : train_data[i] = "bad"

\* the call of train_ner_model has ended, by a return or by an exception
TrainEnded == host = "train" /\ mpc \in {"done", "crashed"}

\* C16: train_ner_model on an empty or otherwise unusable corpus does not raise out
\* to the host, and leaves the analyzer and the persisted model as they were before
\* the training.
C16_TrainingFailure ==
    (TrainEnded /\ Unusable) =>
        /\ mpc # "crashed"
        /\ analyzer.weights = entered.weights
        /\ disk = entered.disk

\* C17: the persisted model is written only after every iteration has completed,
\* and a training that fails leaves the persisted model and the weights in memory
\* as they were.
C17_NoPartialWrite ==
    /\ (entered # NotEntered /\ disk # entered.disk) => itn = n_iter
    /\ (host = "train" /\ mpc = "crashed") =>
        (disk = entered.disk /\ analyzer.weights = entered.weights)

\* train_ner_model is between its call and its return or raise
InTraining == tpc # "idle"

\* a call that reads the weights is in progress: analyze_text, or the self.nlp(text)
\* of the evaluation
Predicting == mpc = "analyzing" \/ tpc = "evaluating"

\* self.nlp.update is in progress
Updating == tpc = "updating"

\* C18, as stated: no call that reads the weights of the tagger is in progress
\* while train_ner_model is in progress.
C18_NoPredictWhileTraining == ~(Predicting /\ InTraining)

\* C18, amended: no call that reads the weights is in progress while nlp.update
\* writes them, analyze_text never runs while train_ner_model is in progress, and
\* the only reads made during a training are those of its own evaluation, made by
\* the training itself between two updates.
C18_TrainPredictExclusive ==
    /\ ~(Predicting /\ Updating)
    /\ mpc = "analyzing" => ~InTraining
    /\ tpc = "evaluating" => (mpc = "training" /\ program = "istok_nlp")

\* main() analyzes a text after the training it ran has returned
C18_Witness ==
    /\ host = "main"
    /\ mpc = "analyzing"
    /\ entered # NotEntered
    /\ tpc = "idle"

\* C20: in every run of main() the weights of the tagger are loaded exactly once,
\* at the start, and nothing modifies or reloads them before the texts are
\* analyzed.
C20_LoadOnce ==
    (host = "main" /\ mpc \in {"serving", "analyzing", "done"}) =>
        /\ loads = 1
        /\ entered # NotEntered => analyzer.weights = entered.weights

w_robot == <<"r", "o", "b", "o", "t">>
w_dvigatelsf == <<"d", "v", "i", "g", "a", "t", "e", "l", "sf">>
w_nasos == <<"n", "a", "s", "o", "s">>
w_ehlektrodvigatelsf == <<"eh", "l", "e", "k", "t", "r", "o", "d", "v", "i", "g", "a", "t", "e", "l", "sf">>
w_temperatura == <<"t", "e", "m", "p", "e", "r", "a", "t", "u", "r", "a">>
w_davlenie == <<"d", "a", "v", "l", "e", "n", "i", "e">>
w_korroziya == <<"k", "o", "r", "r", "o", "z", "i", "ya">>
w_tresk == <<"t", "r", "e", "s", "k">>

PyInt(digits) == <<"<int>">> \o digits
IsStr(v) == v # None /\ (v = <<>> \/ v[1] # "<int>")

Lx(s) == [lex |-> s, key |-> "", val |-> <<>>]
Member(k, v) == [lex |-> "member", key |-> k, val |-> v]
Scalar(v) == [lex |-> "scalar", key |-> "", val |-> v]
Sp == Lx(" ")

\* Python values of the assistant: a dict, a list, any other JSON value, or an
\* exception in flight
Dict(items) == [type |-> "dict", items |-> items]
NotADict(t) == [type |-> t, items |-> <<>>]
Raise == NotADict("raise")

\* key in d, d[key], d.keys() for a dict given by its items
Has(d, k) == \E i \in 1..Len(d.items) : d.items[i][1] = k
Get(d, k) == d.items[CHOOSE i \in 1..Len(d.items) :
                       d.items[i][1] = k /\ \A j \in (i+1)..Len(d.items) : d.items[j][1] # k][2]

\* str.strip() on a text of lexemes
RECURSIVE LStrip(_)
LStrip(t) == IF t # <<>> /\ t[1] = Sp THEN LStrip(Tail(t)) ELSE t
RECURSIVE RStrip(_)
RStrip(t) == IF t # <<>> /\ t[Len(t)] = Sp THEN RStrip(SubSeq(t, 1, Len(t) - 1)) ELSE t
Strip(t) == RStrip(LStrip(t))

StartsWithBrace(t) == t # <<>> /\ t[1] = Lx("{")
IsFence(x) == x.lex \in {"<fence json>", "<fence>"}
HasJsonFence(t) == \E i \in 1..Len(t) : t[i] = Lx("<fence json>")

\* the text between the first opening json fence and the next fence:
\* raw_response.split(open)[1].split(close)[0]
Fenced(t) ==
    LET open == CHOOSE i \in 1..Len(t) : t[i] = Lx("<fence json>") /\ \A j \in 1..(i-1) : t[j] # Lx("<fence json>")
        rest == SubSeq(t, open + 1, Len(t))
        stops == {i \in 1..Len(rest) : IsFence(rest[i])}
    IN  IF stops = {} THEN rest
        ELSE SubSeq(rest, 1, (CHOOSE i \in stops : \A j \in stops : i <= j) - 1)

\* the JSON whitespace between lexemes carries no meaning
RECURSIVE NoSpace(_)
NoSpace(t) ==
    IF t = <<>> THEN <<>>
    ELSE IF t[1] = Sp THEN NoSpace(Tail(t)) ELSE <<t[1]>> \o NoSpace(Tail(t))

\* member (, member)* as the items of a dict; NoMembers when it is not that
NoMembers == <<<<"<error>", <<>>>>>>
RECURSIVE Members(_)
Members(t) ==
    IF t = <<>> THEN <<>>
    ELSE IF t[1].lex # "member" THEN NoMembers
    ELSE IF Len(t) = 1 THEN <<<<t[1].key, t[1].val>>>>
    ELSE IF t[2] # Lx(",") \/ Len(t) = 2 THEN NoMembers
    ELSE LET rest == Members(SubSeq(t, 3, Len(t)))
         IN  IF rest = NoMembers THEN rest ELSE <<<<t[1].key, t[1].val>>>> \o rest

\* json.loads(s): the value of a JSON document, or the exception it raises
json_loads(t) ==
    LET s == NoSpace(t)
        n == Len(s)
    IN  IF n = 0 THEN Raise
        ELSE IF s[1] = Lx("{")
             THEN IF n >= 2 /\ s[n] = Lx("}") /\ Members(SubSeq(s, 2, n - 1)) # NoMembers
                  THEN Dict(Members(SubSeq(s, 2, n - 1)))
                  ELSE Raise
        ELSE IF s[1] = Lx("[")
             THEN IF n >= 2 /\ s[n] = Lx("]")
                       /\ \A i \in 2..(n-1) : s[i].lex = (IF i % 2 = 0 THEN "scalar" ELSE ",")
                       /\ (n > 2 => s[n-1].lex = "scalar")
                  THEN NotADict("list")
                  ELSE Raise
        ELSE IF n = 1 /\ s[1].lex = "scalar" THEN NotADict("scalar")
        ELSE Raise

\* what ask_ollama hands back: an exception, None, or a str
RawRaise == [kind |-> "raise", text |-> <<>>]
RawNone == [kind |-> "none", text |-> <<>>]
RawStr(t) == [kind |-> "str", text |-> t]

\* ask_ollama of src/llama3.py
ask_ollama_llama3(r) ==
    IF r.status # 200 THEN RawNone
    ELSE IF r.body \in {"not_json", "null_response"} THEN RawRaise
    ELSE LET raw_response == IF r.body = "no_response" THEN <<>> ELSE Strip(r.response)
         IN  IF ~StartsWithBrace(raw_response) THEN RawNone ELSE RawStr(raw_response)

\* ask_ollama of src/whisper+llama3.py
ask_ollama_whisper(r) ==
    IF r.status # 200 THEN RawNone
    ELSE IF r.body = "not_json" THEN RawRaise
    ELSE IF r.body = "null_response" THEN RawNone
    ELSE IF r.body = "no_response" THEN RawStr(<<>>)
    ELSE RawStr(r.response)

ask_ollama(r) == IF program = "llama3" THEN ask_ollama_llama3(r) ELSE ask_ollama_whisper(r)

\* {"raw_response": raw_response}
Fallback(raw) == Dict(<<<<"raw_response", IF raw.kind = "none" THEN <<Lx("<None>")>> ELSE raw.text>>>>)


\* extract_entities of both modules: only src/llama3.py unwraps a fenced block
extract_entities(r) ==
    LET raw_response == ask_ollama(r)
        clean_json == IF program = "llama3" /\ HasJsonFence(raw_response.text)
                      THEN Fenced(raw_response.text) ELSE raw_response.text
    IN  IF raw_response.kind = "raise" THEN Raise
        ELSE IF raw_response.kind = "none" \/ json_loads(clean_json) = Raise
        THEN Fallback(raw_response)
        ELSE json_loads(clean_json)

\* str(value)
Str(v) == IF v = None THEN <<"None">> ELSE IF IsStr(v) THEN v ELSE Tail(v)

\* product_map.get(equip_type, "WNProduct:")
product_map(equip_type) ==
    CASE equip_type = w_stanok -> "WNProduct:"
      [] equip_type = w_press -> "WNPress:"
      [] equip_type = w_robot -> "WNRobot:"
      [] equip_type = w_dvigatelsf -> "WNMotor:"
      [] equip_type = w_nasos -> "WNPump:"
      [] equip_type = w_ehlektrodvigatelsf -> "WNMotor:"
      [] OTHER -> "WNProduct:"

\* symptom_map.get(symptom, "NC_DEFAULT")
symptom_map(symptom) ==
    CASE symptom = w_vibraciya -> "NC_VIBRATION"
      [] symptom = w_temperatura -> "NC_TEMPERATURE"
      [] symptom = w_davlenie -> "NC_PRESSURE"
      [] symptom = w_shum -> "NC_NOISE"
      [] symptom = w_peregrev -> "NC_OVERHEATING"
      [] symptom = w_korroziya -> "NC_CORROSION"
      [] OTHER -> "NC_DEFAULT"

base_url == "http://127.0.0.1/Winnum/views/pages/app/agw.jsp"

\* the five parameters every URL starts with
FixedParams == <<
    <<"rpc", <<"WNApplicationTagHelper.getTagCalculationValue">>>>,
    <<"mode", <<"yes">>>>,
    <<"appid", <<"winnum.org.app.WNApplicationInstance:1">>>>,
    <<"from", <<"now-2h">>>>,
    <<"till", <<"now">>>> >>

\* "&".join([f"{k}={v}" for k, v in params.items()])
RECURSIVE JoinParams(_)
JoinParams(params) ==
    IF params = <<>> THEN <<>>
    ELSE <<params[1][1], "=">> \o params[1][2]
         \o (IF Len(params) = 1 THEN <<>> ELSE <<"&">> \o JoinParams(Tail(params)))

UrlRaise == [raised |-> TRUE, url |-> <<>>]
Url(params) == [raised |-> FALSE, url |-> <<base_url, "?">> \o JoinParams(params)]

\* the pid and tid steps of build_winnum_url
WithPid(e) == Has(e, "equipment") /\ Has(e, "number")
PidParam(e) == <<"pid", <<product_map(Lower(Get(e, "equipment")))>> \o Str(Get(e, "number"))>>
TidParam(e) == <<"tid", <<symptom_map(Lower(Get(e, "symptom")))>>>>

\* build_winnum_url(entities) for a dict: .lower() exists on a str only
build_winnum_url(e) ==
    IF WithPid(e) /\ ~IsStr(Get(e, "equipment")) THEN UrlRaise
    ELSE IF Has(e, "symptom") /\ ~IsStr(Get(e, "symptom")) THEN UrlRaise
    ELSE Url(FixedParams
             \o (IF WithPid(e) THEN <<PidParam(e)>> ELSE <<>>)
             \o (IF Has(e, "symptom") THEN <<TidParam(e)>> ELSE <<>>))

\* the answers of the remote annotator: the HTTP status, whether the body is a
\* JSON object and what its "response" field holds, and the text of that field
Statuses == {200, 404, 500}
ObjectText == <<Lx("{"), Member("equipment", w_stanok), Lx(","), Member("number", <<"1", "4">>),
                Lx(","), Member("symptom", w_tresk), Lx("}")>>
NullsText == <<Lx("{"), Member("equipment", None), Lx(","), Member("number", PyInt(<<"5">>)), Lx("}")>>
ShortText == <<Lx("{"), Member("symptom", w_vibraciya), Lx("}")>>
ResponseTexts == {
    ObjectText, NullsText,
    <<Lx("{"), Lx("}")>>,
    <<Sp>> \o ShortText \o <<Sp>>,
    <<Lx("{"), Member("symptom", w_vibraciya)>>,
    ShortText \o <<Sp, Lx("word")>>,
    <<Lx("word"), Sp, Lx("word")>>,
    <<Lx("<fence json>"), Sp>> \o ShortText \o <<Sp, Lx("<fence>")>>,
    <<Lx("{"), Sp, Lx("<fence json>")>> \o ShortText \o <<Lx("<fence>")>>,
    <<Lx("["), Lx("]")>>,
    <<Lx("["), Scalar(w_stanok), Lx(","), Scalar(w_tresk), Lx("]")>>,
    <<Scalar(w_stanok)>>,
    <<>> }
Replies ==
    [status : Statuses, body : {"not_json", "no_response", "null_response"}, response : {<<>>}]
    \cup [status : Statuses, body : {"text"}, response : ResponseTexts]

\* entities = extract_entities(user_text)
ExtractEntities ==
    /\ pc = "ready"
    /\ entities' = extract_entities(reply)
    /\ pc' = IF entities' = Raise THEN "raised" ELSE "extracted"
    /\ UNCHANGED <<morph, pipe_pos, query, lookup, ents, ret, host_vars,
                   texts, reply, audio, heard, yielded>>

\* for key, value in entities.items(): print(...)
ListEntities ==
    /\ pc = "extracted"
    /\ pc' = IF entities.type # "dict" THEN "raised"
             ELSE IF program = "llama3" THEN "listed" ELSE "processed"
    /\ UNCHANGED <<morph, pipe_pos, query, lookup, ents, ret, host_vars, assistant_vars>>

\* src/llama3.py: full_url = build_winnum_url(entities); webbrowser.open(full_url)
OpenUrl ==
    /\ pc = "listed"
    /\ ret' = build_winnum_url(entities)
    /\ pc' = IF ret'.raised THEN "raised" ELSE "processed"
    /\ UNCHANGED <<morph, pipe_pos, query, lookup, ents, host_vars, assistant_vars>>

\* the next text is typed or yielded, and the annotator answers it
NextRequest ==
    /\ pc = "processed"
    /\ reply' \in Replies
    /\ entities' = <<>>
    /\ ret' = None
    /\ pc' = "ready"
    /\ UNCHANGED <<morph, pipe_pos, query, lookup, ents, host_vars,
                   texts, audio, heard, yielded>>

InitRemote ==
    /\ morph = "ok"
    /\ pipe_pos = FALSE
    /\ query = <<>>
    /\ lookup = None
    /\ ents = <<>>
    /\ pc = "ready"
    /\ ret = None
    /\ program \in {"llama3", "whisper_llama3"}
    /\ host = "main"
    /\ mpc = "idle"
    /\ served = 0
    /\ loads = 0
    /\ analyzer = NoAnalyzer
    /\ disk = Absent
    /\ tpc = "idle"
    /\ train_data = <<>>
    /\ n_iter = 0
    /\ itn = 0
    /\ batch = 0
    /\ entered = NotEntered
    /\ calls = <<>>
    /\ texts = <<>>
    /\ reply \in Replies
    /\ entities = <<>>
    /\ audio = "none"
    /\ heard = <<>>
    /\ yielded = <<>>

NextRemote == ExtractEntities \/ ListEntities \/ OpenUrl \/ NextRequest

SpecRemote == InitRemote /\ [][NextRemote]_vars

(***************************************************************************)
(* Claims about the remote annotator (specification SpecRemote)            *)
(***************************************************************************)
\* the annotator answered with a non-200 status or with something that is not a
\* single JSON object
AnswerFailed(r) ==
    \/ r.status # 200
    \/ r.body # "text"
    \/ json_loads(r.response).type # "dict"

\* C21: when the remote annotator answers with a non-200 status or a payload that is
\* not a single JSON object, extract_entities returns a record with the
\* "raw_response" field and neither it nor the caller's processing raises.
C21_FailureIsValue ==
    (pc \in {"extracted", "listed", "processed", "raised"} /\ AnswerFailed(reply))
        => /\ pc # "raised"
           /\ entities.type = "dict"
           /\ Has(entities, "raw_response")

(***************************************************************************)
(* The batch loop of main() in src/istok_nlp.py: for query in test_queries *)
(* calls analyze_text and prints the result, one text after the other.     *)
(* Each text of the batch is pending, analyzed, or failed.                 *)
(***************************************************************************)
MaxBatch == 2

BatchTexts == {EndToEndReport, <<w_stanok, w_5>>, <<w_kapaet>>, <<w_shpindelsf>>}

Pending(t) == [text |-> t, state |-> "pending"]

RECURSIVE BatchesOf(_)
BatchesOf(n) ==
    IF n = 0 THEN {<<>>}
    ELSE BatchesOf(n - 1) \cup
         {Append(b, Pending(t)) : b \in {x \in BatchesOf(n - 1) : Len(x) = n - 1}, t \in BatchTexts}

\* the loop takes the next text: analysis = analyzer.analyze_text(query) is entered
\* and doc = self.nlp(text) runs the tagger
BatchAnalyze ==
    /\ mpc = "serving"
    /\ served < Len(texts)
    /\ query' = texts[served + 1].text
    /\ ents' \in TaggerOutputs(query')
    /\ mpc' = "analyzing"
    /\ UNCHANGED <<morph, pipe_pos, lookup, pc, ret, program, host, served, loads, analyzer, disk,
                   tpc, train_data, n_iter, itn, batch, entered, calls, assistant_vars>>

\* analyze_text returns and pretty_print_analysis prints the result, which is then
\* dropped, or analyze_text raises: nothing in main() catches, so the exception
\* ends the loop and the process
BatchAnalyzed ==
    /\ mpc = "analyzing"
    /\ \E analysis \in analyze_text(query, ents) :
        /\ texts' = [texts EXCEPT ![served + 1].state =
                         IF analysis.raised THEN "failed" ELSE "analyzed"]
        /\ mpc' = IF analysis.raised THEN "crashed" ELSE "serving"
    /\ served' = served + 1
    /\ ents' = <<>>
    /\ UNCHANGED <<morph, pipe_pos, query, lookup, pc, ret, program, host, loads, analyzer, disk,
                   tpc, train_data, n_iter, itn, batch, entered, calls,
                   reply, entities, audio, heard, yielded>>

\* the loop is exhausted and main() returns
BatchExit ==
    /\ mpc = "serving"
    /\ served = Len(texts)
    /\ mpc' = "done"
    /\ UNCHANGED <<morph, pipe_pos, query, lookup, ents, pc, ret, program, host, served, loads,
                   analyzer, disk, tpc, train_data, n_iter, itn, batch, entered, calls,
                   assistant_vars>>

InitBatch ==
    /\ morph \in {"ok", "none"}
    /\ pipe_pos \in BOOLEAN
    /\ query = <<>>
    /\ lookup = None
    /\ ents = <<>>
    /\ pc = "host"
    /\ ret = None
    /\ program = "istok_nlp"
    /\ host = "main"
    /\ mpc = "serving"
    /\ served = 0
    /\ loads = 1
    /\ disk = Old
    /\ analyzer = NewAnalyzer(TRUE)
    /\ tpc = "idle"
    /\ train_data = <<>>
    /\ n_iter = 0
    /\ itn = 0
    /\ batch = 0
    /\ entered = NotEntered
    /\ calls = <<>>
    /\ texts \in BatchesOf(MaxBatch)
    /\ reply = NoReply
    /\ entities = <<>>
    /\ audio = "none"
    /\ heard = <<>>
    /\ yielded = <<>>

NextBatch == BatchAnalyze \/ BatchAnalyzed \/ BatchExit

SpecBatch == InitBatch /\ [][NextBatch]_vars

(***************************************************************************)
(* Claims about the batch loop (specification SpecBatch)                   *)
(***************************************************************************)
\* the loop has ended: main() returned, or an exception left it
BatchEnded == mpc \in {"done", "crashed"}

\* C22: a failure while analysing one text of a batch does not prevent the remaining
\* texts from being analysed: by the time the loop has ended, every text after a
\* failing one has been processed.
C22_FailureIsolation ==
    BatchEnded => \A i \in DOMAIN texts : \A j \in DOMAIN texts :
        (i < j /\ texts[i].state = "failed") => texts[j].state # "pending"

(***************************************************************************)
(* Claim about _normalize applied twice (specification SpecNormalize)      *)
(***************************************************************************)
\* every key and every variant of the four term dictionaries
DictionaryWords ==
    WordsOf(equipment_types) \cup WordsOf(components) \cup WordsOf(symptoms) \cup WordsOf(actions)

MaxForms == 3

Form(w, t, c) == [word |-> w, tag |-> t, citation |-> c]

\* the forms a lexeme of the word can list: the word itself under its tag, its
\* infinitive, a noun in its citation form and in the genitive
FormsOf(word, tag) ==
    {Form(word, tag, FALSE), Form(NormalForm(word), "INFN", TRUE),
     Form(w_remont, "NOUN", TRUE), Form(w_remonta, "NOUN", FALSE)}

RECURSIVE SeqsOver(_, _)
SeqsOver(S, n) ==
    IF n = 0 THEN {<<>>}
    ELSE SeqsOver(S, n - 1) \cup
         {Append(q, x) : q \in {y \in SeqsOver(S, n - 1) : Len(y) = n - 1}, x \in S}

\* the paradigm lists the citation form of the noun before its other forms
ParadigmOrder(lexeme) ==
    \A i \in DOMAIN lexeme :
        (lexeme[i].tag = "NOUN" /\ ~lexeme[i].citation)
            => \E j \in 1..(i - 1) : lexeme[j].tag = "NOUN" /\ lexeme[j].citation

Tags == {"VERB", "PRTS", "ADJF", "ADJS", "NOUN", "INFN"}

\* what parse(word)[0] can be
Parses(word) ==
    {[tag |-> t, lexeme |-> l] :
        t \in Tags, l \in {x \in UNION {SeqsOver(FormsOf(word, tg), MaxForms) : tg \in Tags} :
                              ParadigmOrder(x) /\ \A i \in DOMAIN x : x[i].tag \in Tags}}

NounForms(lexeme) == {i \in DOMAIN lexeme : lexeme[i].tag = "NOUN"}

\* a conversion that keeps the last noun form of the lexeme instead of the first
FirstNoun_last(lexeme) == lexeme[CHOOSE i \in NounForms(lexeme) : \A j \in NounForms(lexeme) : j <= i].word

\* for form in parsed[0].lexeme: if 'NOUN' in form.tag: return form.word
FirstNoun(lexeme) == lexeme[CHOOSE i \in NounForms(lexeme) : \A j \in NounForms(lexeme) : i <= j].word

\* _convert_verb_to_noun(word) when parse(word)[0] is parsed; m is self.morph
ConvertWith(m, parsed, word) ==
    IF word = <<>> THEN None
    ELSE IF m # "ok" THEN word
    ELSE IF parsed.tag \in {"VERB", "PRTS", "ADJF", "ADJS"} /\ NounForms(parsed.lexeme) # {}
         THEN FirstNoun(parsed.lexeme)
    ELSE word

\* the call _convert_verb_to_noun(word)
ConvertVerbToNoun ==
    /\ pc = "ready"
    /\ \E parsed \in Parses(lookup) :
        ret' = [parsed |-> parsed, noun |-> ConvertWith(morph, parsed, lookup)]
    /\ pc' = "converted"
    /\ UNCHANGED <<assistant_vars, morph, pipe_pos, query, lookup, ents, host_vars>>

InitConvert ==
    /\ morph \in {"ok", "none", "throws"}
    /\ pipe_pos = FALSE
    /\ query = <<>>
    /\ lookup \in {w_kapaet, w_frezernaya, w_stanka, <<>>}
    /\ ents = <<>>
    /\ pc = "ready"
    /\ ret = None
    /\ HostIdle

NextConvert == ConvertVerbToNoun

SpecConvert == InitConvert /\ [][NextConvert]_vars

(***************************************************************************)
(* Claim about _convert_verb_to_noun (specification SpecConvert)           *)
(***************************************************************************)
\* C24: for a word analysed as a verb, participle or adjective, _convert_verb_to_noun
\* returns the citation form of a noun of the lexeme when the lexeme holds a noun and
\* the original word otherwise; it never raises, and for any other analysable word it
\* returns the word unchanged.
C24_VerbToNoun ==
    (pc = "converted" /\ lookup # <<>>) =>
        LET converted == morph = "ok" /\ ret.parsed.tag \in {"VERB", "PRTS", "ADJF", "ADJS"}
            nouns == {ret.parsed.lexeme[i] : i \in NounForms(ret.parsed.lexeme)}
        IN  /\ ret.noun # Raises
            /\ (converted /\ nouns # {})
                => \E f \in nouns : f.citation /\ ret.noun = f.word
            /\ (converted /\ nouns = {}) => ret.noun = lookup
            /\ ~converted => ret.noun = lookup

\* "капает" was analysed as a verb whose lexeme lists the noun "ремонт" and then its
\* genitive, and the citation form "ремонт" came back
C24_Witness ==
    /\ pc = "converted"
    /\ morph = "ok"
    /\ lookup = w_kapaet
    /\ ret.parsed.tag = "VERB"
    /\ ret.parsed.lexeme = <<Form(w_kapaet, "VERB", FALSE), Form(w_remont, "NOUN", TRUE),
                             Form(w_remonta, "NOUN", FALSE)>>
    /\ ret.noun = w_remont

(***************************************************************************)
(* Claim about the low-urgency keywords (specification SpecUrgency)        *)
(***************************************************************************)
\* the text of the report is one of the keywords and nothing else
KeywordAlone(keywords) == DocText(query) \in keywords

\* C25: a text that consists of one low-urgency keyword alone ("плановый",
\* "не срочно", "профилактика", and "незначительн" in istok_nlp_learn) is classified
\* "Низкая".
C25_LowKeywordAlone ==
    /\ (pc = "urgency" /\ KeywordAlone({w_planovyj, w_ne_srochno, w_profilaktika}))
       => ret = w_Nizkaya
    /\ (pc = "urgency_learn" /\ KeywordAlone({w_neznachitelsfn, w_planovyj, w_ne_srochno}))
       => ret = w_Nizkaya

(***************************************************************************)
(* Claim about the elements of _get_symptoms (specification SpecSymptoms)  *)
(***************************************************************************)
\* C26: every element of the list of _get_symptoms is a key of the symptom dictionary,
\* or the list is the single sentinel "Симптомы не описаны": no surface form of the
\* text appears in it.
C26_CanonicalOnly ==
    pc = "symptoms" =>
        \/ ret = <<w_Simptomy_ne_opisany>>
        \/ \A i \in DOMAIN ret : ret[i] \in Terms(symptoms)

(***************************************************************************)
(* Claim about ner.equipment_id (specification Spec)                       *)
(***************************************************************************)
\* the texts of the spans the tagger labelled EQUIPMENT in this call
TaggedEquipment == EntTexts(query, ents, "EQUIPMENT")

\* C27: after analyze_text every entry of ner.equipment_id is a non-empty string of
\* digits, each is the digits of an entry of ner.equipment, there are no more ids than
\* equipment entries, and equipment holds pattern-matched tokens (NOUN or PROPN with a
\* digit) only when the tagger produced no EQUIPMENT span.
C27_EquipmentIds ==
    (pc = "analyzed" /\ ~ret.raised) =>
        LET ids == ret.ner.equipment_id
            equipment == ret.ner.equipment
        IN  /\ \A i \in DOMAIN ids :
                /\ ids[i] # <<>>
                /\ \A k \in DOMAIN ids[i] : ids[i][k] \in Digits
                /\ \E e \in DOMAIN equipment : ids[i] = DigitsOf(equipment[e])
            /\ Len(ids) <= Len(equipment)
            /\ TaggedEquipment # <<>> => equipment = TaggedEquipment
            /\ TaggedEquipment = <<>> =>
                \A e \in DOMAIN equipment : \E t \in DOMAIN query :
                    /\ equipment[e] = query[t]
                    /\ pos_(query, t) \in {"NOUN", "PROPN"}
                    /\ HasDigit(query[t])

\* the tagger found no equipment in "станок E15" and the pattern step took the token
\* "E15", whose digits are the id "15"
C27_Witness ==
    /\ pc = "analyzed"
    /\ query = <<w_stanok, w_E15>>
    /\ TaggedEquipment = <<>>
    /\ ~ret.raised
    /\ ret.ner.equipment = <<w_E15>>
    /\ ret.ner.equipment_id = <<<<"1", "5">>>>

(***************************************************************************)
(* _determine_equipment_type on its own: the document and the mentions the *)
(* tagger labelled EQUIPMENT in it, which analyze_text hands over as       *)
(* found_equipment.                                                        *)
(***************************************************************************)
MaxMentions == 2

DetermineWords == {w_stanok, w_press, w_slomalsya, w_shpindelsf}

\* the EQUIPMENT spans of a tagger that finds up to MaxMentions of them
EquipmentOutputs(doc) ==
    {es \in UNION {[1..n -> {s \in Spans(doc) : s.label = "EQUIPMENT"}] : n \in 0..MaxMentions} :
        \A k \in 1..(Len(es) - 1) : es[k].end < es[k + 1].start}

\* ner_result["equipment"] of this call
FoundEquipment == EntTexts(query, ents, "EQUIPMENT")

\* the call _determine_equipment_type(doc, ner_result["equipment"])
DetermineEquipmentType ==
    /\ pc = "ready"
    /\ ret' = _determine_equipment_type(query, FoundEquipment)
    /\ pc' = "determined"
    /\ UNCHANGED <<assistant_vars, morph, pipe_pos, query, lookup, ents, host_vars>>

InitDetermine ==
    /\ morph = "ok"
    /\ pipe_pos \in BOOLEAN
    /\ query \in ReportsOver(DetermineWords, MaxTokens + 1)
    /\ lookup = None
    /\ ents \in EquipmentOutputs(query)
    /\ pc = "ready"
    /\ ret = None
    /\ HostIdle

NextDetermine == DetermineEquipmentType

SpecDetermine == InitDetermine /\ [][NextDetermine]_vars

(***************************************************************************)
(* Claims about _determine_equipment_type (specification SpecDetermine)    *)
(***************************************************************************)
\* the key or a variant of entry t of equipment_types is a substring of mention e
MentionNames(e, t) ==
    \/ Contains(Lower(FoundEquipment[e]), Lower(equipment_types[t].term))
    \/ \E j \in DOMAIN equipment_types[t].variants :
           Contains(Lower(FoundEquipment[e]), Lower(equipment_types[t].variants[j]))

\* the mentions that name a known type, and the entries a mention names
TypedMentions == {e \in DOMAIN FoundEquipment : \E t \in DOMAIN equipment_types : MentionNames(e, t)}
EntriesNamedBy(e) == {t \in DOMAIN equipment_types : MentionNames(e, t)}

\* the tokens the per-token dictionary search hits, and those the context rule hits
DictionaryHits == {i \in DOMAIN query : Truthy(_match_term(query[i], equipment_types))}
ContextHits ==
    {i \in 1..(Len(query) - 1) :
        lemma_(query, i) \in BreakdownLemmas /\ pos_(query, i + 1) \in {"NOUN", "PROPN"}}

\* C28 as stated: with a non-empty found-equipment list the result is the first
\* dictionary entry, in definition order, whose key or a variant is a substring of a
\* found mention, else the first mention capitalized.
C28_FirstEntryOfAnyMention ==
    (pc = "determined" /\ FoundEquipment # <<>>) =>
        LET named == UNION {EntriesNamedBy(e) : e \in DOMAIN FoundEquipment}
        IN  ret = IF named # {} THEN Capitalize(equipment_types[Least(named)].term)
                  ELSE Capitalize(FoundEquipment[1])

\* C28, amended: with a non-empty found-equipment list the result comes from it alone
\* (the first entry, in definition order, named by the first mention that names any
\* entry, else the first mention capitalized) and is never the sentinel; the per-token
\* dictionary search decides only when the list is empty, the context rule only when
\* that search also fails, and the sentinel is returned only when all three fail.
C28_Precedence ==
    pc = "determined" =>
        /\ FoundEquipment # <<>> =>
            /\ ret # w_Neizvestnoe_oborudovanie
            /\ ret = IF TypedMentions # {}
                     THEN Capitalize(equipment_types[Least(EntriesNamedBy(Least(TypedMentions)))].term)
                     ELSE Capitalize(FoundEquipment[1])
        /\ (FoundEquipment = <<>> /\ DictionaryHits # {})
            => ret = Capitalize(_match_term(query[Least(DictionaryHits)], equipment_types))
        /\ (FoundEquipment = <<>> /\ DictionaryHits = {} /\ ContextHits # {})
            => ret = Capitalize(query[Least(ContextHits) + 1])
        /\ ret = w_Neizvestnoe_oborudovanie
            <=> (FoundEquipment = <<>> /\ DictionaryHits = {} /\ ContextHits = {})

\* "пресс станок" with both tokens tagged EQUIPMENT: the first mention decides, though
\* "станок" is the earlier entry of the dictionary
C28_Witness ==
    /\ pc = "determined"
    /\ query = <<w_press, w_stanok>>
    /\ FoundEquipment = <<w_press, w_stanok>>
    /\ ret = Capitalize(w_press)

(***************************************************************************)
(* SpeechRecognizer.run, the generator both assistants define: capture,    *)
(* recognize, stop on a stop word or yield the text and wait to be asked   *)
(* for the next one.  The microphone and the recognition engine are        *)
(* outside the repository: a capture times out or gives audio, the engine  *)
(* gives a str, something that is not a str, or raises.                    *)
(***************************************************************************)
MaxYield == 2

w_zakonchitsf == <<"z", "a", "k", "o", "n", "ch", "i", "t", "sf">>
w_ostanovitsf == <<"o", "s", "t", "a", "n", "o", "v", "i", "t", "sf">>
w_Zakonchitsf == <<"Z", "a", "k", "o", "n", "ch", "i", "t", "sf">>

StopWords == {w_zakonchitsf, w_ostanovitsf}

\* str.strip() on a str of characters
RECURSIVE StripLeft(_)
StripLeft(s) == IF s # <<>> /\ s[1] = " " THEN StripLeft(Tail(s)) ELSE s
RECURSIVE StripRight(_)
StripRight(s) == IF s # <<>> /\ s[Len(s)] = " " THEN StripRight(SubSeq(s, 1, Len(s) - 1)) ELSE s
StripStr(s) == StripRight(StripLeft(s))

\* what the engine hands to recognize_speech: a str, or a marker for a result that
\* is not a str and for an exception
NotAStr == <<"<not a str>">>
EngineRaises == <<"<engine raises>">>
Utterances == {
    <<>>, <<" ">>,
    w_zakonchitsf, w_Zakonchitsf,
    <<" ">> \o w_ostanovitsf \o <<" ">>,
    w_zakonchitsf \o <<".">>,
    w_stanok, <<" ">> \o Phrase(w_stanok, w_5),
    NotAStr, EngineRaises }

\* recognize_speech(audio) for audio that is not None
recognize_speech(result) ==
    IF result = EngineRaises \/ result = NotAStr THEN None ELSE StripStr(result)

\* a stop test that compares the text as it was recognized
IsStopWord_case_sensitive(text) == text \in StopWords

\* text.lower() in ["закончить", "остановить"]
IsStopWord(text) == Lower(text) \in StopWords

\* audio = self.record_audio(); if not audio: continue
RecordAudio ==
    /\ pc = "capture"
    /\ audio' \in {"none", "captured"}
    /\ pc' = IF audio' = "none" THEN "capture" ELSE "recognize"
    /\ heard' = <<>>
    /\ UNCHANGED <<morph, pipe_pos, query, lookup, ents, ret, host_vars,
                   texts, reply, entities, yielded>>

\* text = self.recognize_speech(audio); if text: break on a stop word, else yield text
RecognizeSpeech ==
    /\ pc = "recognize"
    /\ Len(yielded) < MaxYield
    /\ \E result \in Utterances : heard' = recognize_speech(result)
    /\ IF ~Truthy(heard') THEN pc' = "capture" /\ UNCHANGED yielded
       ELSE IF IsStopWord(heard') THEN pc' = "ended" /\ UNCHANGED yielded
       ELSE pc' = "yielded" /\ yielded' = Append(yielded, heard')
    /\ UNCHANGED <<morph, pipe_pos, query, lookup, ents, ret, host_vars,
                   texts, reply, entities, audio>>

\* the consumer asks for the next text and the loop goes on
ResumeRun ==
    /\ pc = "yielded"
    /\ pc' = "capture"
    /\ UNCHANGED <<morph, pipe_pos, query, lookup, ents, ret, host_vars, assistant_vars>>

InitRun ==
    /\ morph = "ok"
    /\ pipe_pos = FALSE
    /\ query = <<>>
    /\ lookup = None
    /\ ents = <<>>
    /\ pc = "capture"
    /\ ret = None
    /\ program \in {"llama3", "whisper_llama3"}
    /\ host = "main"
    /\ mpc = "idle"
    /\ served = 0
    /\ loads = 0
    /\ analyzer = NoAnalyzer
    /\ disk = Absent
    /\ tpc = "idle"
    /\ train_data = <<>>
    /\ n_iter = 0
    /\ itn = 0
    /\ batch = 0
    /\ entered = NotEntered
    /\ calls = <<>>
    /\ texts = <<>>
    /\ reply = NoReply
    /\ entities = <<>>
    /\ audio = "none"
    /\ heard = <<>>
    /\ yielded = <<>>

NextRun == RecordAudio \/ RecognizeSpeech \/ ResumeRun

SpecRun == InitRun /\ [][NextRun]_vars

(***************************************************************************)
(* Claim about SpeechRecognizer.run (specification SpecRun)                *)
(***************************************************************************)
\* every text yielded so far is a non-empty str that is no stop word
YieldedTextsValid ==
    \A i \in DOMAIN yielded :
        /\ yielded[i] # <<>>
        /\ yielded[i] # None
        /\ Lower(yielded[i]) \notin StopWords

\* the loop ends exactly on a recognized stop word, and does nothing afterwards
EndsOnStopWord ==
    /\ pc' = "ended" <=> (pc = "recognize" /\ Truthy(heard') /\ Lower(heard') \in StopWords)
    /\ pc = "ended" => UNCHANGED <<pc, yielded>>

\* a capture that times out and an utterance that is not recognized yield nothing,
\* and the loop goes on with a new capture
SilenceContinues ==
    /\ (pc = "capture" /\ audio' = "none") => (pc' = "capture" /\ yielded' = yielded)
    /\ (pc = "recognize" /\ ~Truthy(heard')) => (pc' = "capture" /\ yielded' = yielded)

\* C29: every text run yields is a non-empty recognized str that is not a stop word;
\* the loop terminates exactly when a recognized text equals a stop word, whatever
\* its case, and yields nothing afterwards; a capture timeout or an unrecognized
\* utterance yields nothing and the loop continues with a new capture.
C29_RunLoop == []YieldedTextsValid /\ [][EndsOnStopWord /\ SilenceContinues]_vars

\* "станок" was yielded, then the capitalized "Закончить" ended the loop
C29_Witness ==
    /\ pc = "ended"
    /\ yielded = <<w_stanok>>
    /\ heard = w_Zakonchitsf

(***************************************************************************)
(* build_winnum_url on its own: an entity record with any of the keys the  *)
(* prompt asks for, or the fallback record of extract_entities; a value is *)
(* a str, null, or a number.                                               *)
(***************************************************************************)
EntityValues(key) ==
    CASE key = "equipment" -> {w_stanok, w_press, Capitalize(w_robot), w_shpindelsf, None}
      [] key = "number" -> {<<"1", "4">>, PyInt(<<"5">>), None}
      [] key = "symptom" -> {w_vibraciya, w_tresk, None}
      [] OTHER -> {None, w_tresk}

RECURSIVE RecordsOver(_)
RecordsOver(keys) ==
    IF keys = <<>> THEN {<<>>}
    ELSE LET rest == RecordsOver(Tail(keys))
         IN  rest \cup {<<<<Head(keys), v>>>> \o r : v \in EntityValues(Head(keys)), r \in rest}

EntityRecords ==
    {Dict(items) : items \in RecordsOver(<<"equipment", "number", "symptom">>)
                              \cup RecordsOver(<<"raw_response">>)}

\* the call build_winnum_url(entities)
BuildWinnumUrl ==
    /\ pc = "ready"
    /\ ret' = build_winnum_url(entities)
    /\ pc' = "url"
    /\ UNCHANGED <<morph, pipe_pos, query, lookup, ents, host_vars, assistant_vars>>

InitUrl ==
    /\ morph = "ok"
    /\ pipe_pos = FALSE
    /\ query = <<>>
    /\ lookup = None
    /\ ents = <<>>
    /\ pc = "ready"
    /\ ret = None
    /\ program = "llama3"
    /\ host = "function"
    /\ mpc = "idle"
    /\ served = 0
    /\ loads = 0
    /\ analyzer = NoAnalyzer
    /\ disk = Absent
    /\ tpc = "idle"
    /\ train_data = <<>>
    /\ n_iter = 0
    /\ itn = 0
    /\ batch = 0
    /\ entered = NotEntered
    /\ calls = <<>>
    /\ texts = <<>>
    /\ reply = NoReply
    /\ entities \in EntityRecords
    /\ audio = "none"
    /\ heard = <<>>
    /\ yielded = <<>>

NextUrl == BuildWinnumUrl

SpecUrl == InitUrl /\ [][NextUrl]_vars

(***************************************************************************)
(* Claim about build_winnum_url (specification SpecUrl)                    *)
(***************************************************************************)
\* the URL holds the parameter key=..., and the value it holds for it
HasParam(url, key) ==
    \E i \in 2..(Len(url) - 2) : url[i] \in {"?", "&"} /\ url[i + 1] = key /\ url[i + 2] = "="
ParamStartsWith(url, key, prefix) ==
    \E i \in 2..(Len(url) - 3) :
        url[i] \in {"?", "&"} /\ url[i + 1] = key /\ url[i + 2] = "=" /\ url[i + 3] = prefix

\* C30: for every entity record build_winnum_url never raises; the URL holds the five
\* fixed parameters; it holds pid exactly when the record has both "equipment" and
\* "number", with the prefix of the product map or "WNProduct:" for an unmapped type;
\* it holds tid exactly when the record has "symptom", with "NC_DEFAULT" for an
\* unmapped symptom.
C30_WinnumUrl ==
    pc = "url" =>
        /\ ~ret.raised
        /\ \A key \in {"rpc", "mode", "appid", "from", "till"} : HasParam(ret.url, key)
        /\ HasParam(ret.url, "pid") <=> (Has(entities, "equipment") /\ Has(entities, "number"))
        /\ HasParam(ret.url, "tid") <=> Has(entities, "symptom")
        /\ (Has(entities, "equipment") /\ Has(entities, "number")
            /\ Get(entities, "equipment") = w_shpindelsf)
            => ParamStartsWith(ret.url, "pid", "WNProduct:")
        /\ (Has(entities, "equipment") /\ Has(entities, "number")
            /\ Get(entities, "equipment") = w_press)
            => ParamStartsWith(ret.url, "pid", "WNPress:")
        /\ (Has(entities, "symptom") /\ Get(entities, "symptom") = w_tresk)
            => ParamStartsWith(ret.url, "tid", "NC_DEFAULT")

====
